---- MODULE Spec2Model ----
(***************************************************************************)
(* Fretude: the note-identification drill engine.                          *)
(*                                                                         *)
(* The module models                                                       *)
(*   - the pitch arithmetic of constants.ts (src/unnamed/part_005),        *)
(*   - the stats store and the adaptive scheduler of App.tsx,              *)
(*   - the guitar-profile editor of components/GuitarSettings.tsx,         *)
(*   - the game loop of App.tsx (startGame, generateNewNote, checkAnswer,  *)
(*     handleTimeout, stopGame) together with the values each callback     *)
(*     captured from the render that created it.                           *)
(*                                                                         *)
(* Note labels are strings; the Unicode accidentals are written "~#" and   *)
(* "~b" (so "C~#" is C followed by the Unicode sharp sign).                *)
(***************************************************************************)
EXTENDS Integers, Sequences, FiniteSets, TLC

VARIABLES
  call,              \* harness: the function call under examination
  ret,               \* harness: its result, NoValue before the call ran
  gameState,         \* useState gameState
  currentMaxFret,    \* useState currentMaxFret
  score,             \* useState score
  streak,            \* useState streak
  health,            \* useState health
  targetNote,        \* useState targetNote, mirrored by targetNoteRef
  isProcessing,      \* useState isProcessing
  activePowerup,     \* useState activePowerup, mirrored by activePowerupRef
  history,           \* useState history (the score records)
  noteStats,         \* useState noteStats (persisted as fretmaster_note_stats)
  guitarProfiles,    \* useState guitarProfiles
  activeGuitarId,    \* useState activeGuitarId
  showGuitarSettings, \* useState showGuitarSettings: the settings modal is mounted
  editingId,         \* GuitarSettings: useState editingId ("" for null)
  editForm,          \* GuitarSettings: useState editForm
  gameConfig,        \* useState gameConfig
  now,               \* Date.now()
  noteStartTimeRef,  \* useRef noteStartTimeRef
  sessionInteractionsRef, \* useRef sessionInteractionsRef
  timerIntervalRef,  \* the running interval: the scope of its callback, or NoValue
  feedbackTimeoutRef,\* the pending timeout: what it calls and in which scope
  genScope,          \* non-dependency values captured by the memoized generateNewNote
  recorded,          \* history variable: outcomes recorded so far, per stats key
  lastSched,         \* history variable: the latest scheduling read
  lastWrite          \* history variable: the latest recordNoteResult call

harnessVars == <<call, ret>>

gameVars == <<gameState, currentMaxFret, score, streak, health, targetNote,
              isProcessing, activePowerup, history, noteStats, guitarProfiles,
              activeGuitarId, showGuitarSettings, editingId, editForm, gameConfig,
              now, noteStartTimeRef, sessionInteractionsRef, timerIntervalRef, feedbackTimeoutRef, genScope, recorded, lastSched,
              lastWrite>>

vars == <<call, ret, gameState, currentMaxFret, score, streak, health, targetNote,
          isProcessing, activePowerup, history, noteStats, guitarProfiles,
          activeGuitarId, showGuitarSettings, editingId, editForm, gameConfig,
          now, noteStartTimeRef, sessionInteractionsRef, timerIntervalRef, feedbackTimeoutRef, genScope, recorded, lastSched,
          lastWrite>>

settingsVars == <<guitarProfiles, activeGuitarId, showGuitarSettings, editingId, editForm>>

\* null / undefined where an object is expected
NoValue == [null |-> TRUE]

\* the truthiness of a string that may be null (written "")
Truthy(str) == str # ""

(***************************************************************************)
(* Bounds of the model.                                                    *)
(***************************************************************************)
RandSteps == 2     \* Math.random() is drawn from {0, 1/RandSteps, ..., (RandSteps-1)/RandSteps}
MaxPool == 3       \* longest pool handed to getSmartNextNote on its own
ClockStart == 1000000  \* Date.now() of the first state, in ms
MaxOutcomes == 5   \* outcomes recorded in one behaviour
MaxProfiles == 2   \* guitar profiles, the default one included
MaxRecorded == 2   \* outcomes recorded in one behaviour of SettingsSpec
MaxStreakOutcomes == 8   \* outcomes recorded in one behaviour of StreakSpec
MaxGamesOutcomes == 10   \* outcomes recorded in one behaviour of GamesSpec

(***************************************************************************)
(* constants.ts: tables.                                                   *)
(***************************************************************************)
NOTES_SHARP ==
  [i \in 0..11 |-> <<"C", "C#", "D", "D#", "E", "F", "F#", "G", "G#", "A", "A#", "B">>[i + 1]]

NOTES_FLAT ==
  [i \in 0..11 |-> <<"C", "Db", "D", "Eb", "E", "F", "Gb", "G", "Ab", "A", "Bb", "B">>[i + 1]]

NATURAL_NOTES == <<"C", "D", "E", "F", "G", "A", "B">>

STANDARD_TUNING_OFFSETS == <<0, 5, 10, 15, 19, 24>>

MAX_HEALTH == 5

INITIAL_MAX_FRET == 3

TOTAL_FRETS == 12

\* GuitarSettings.tsx generatePitchOptions: the offsets a string can be tuned to
PitchOptionMin == 0 - 8

PitchOptionMax == 24

(***************************************************************************)
(* JavaScript primitives.                                                  *)
(***************************************************************************)
\* a % b of JavaScript: the remainder takes the sign of the dividend
JsRem(a, b) == IF a >= 0 THEN a % b ELSE 0 - ((0 - a) % b)

\* Math.floor(a / b) for integers a and b > 0
FloorDiv(a, b) == a \div b

\* Array.prototype.indexOf on a table indexed from 0: -1 when absent
IndexOf(table, x) ==
  IF \E i \in DOMAIN table : table[i] = x
    THEN CHOOSE i \in DOMAIN table : table[i] = x /\ \A j \in DOMAIN table : table[j] = x => i <= j
    ELSE -1

\* String.prototype.replace of the Unicode sharp sign by '#'
ReplaceSharpSign(name) ==
  CASE name = "C~#" -> "C#" [] name = "D~#" -> "D#" [] name = "F~#" -> "F#"
    [] name = "G~#" -> "G#" [] name = "A~#" -> "A#" [] OTHER -> name

\* String.prototype.replace of the Unicode flat sign by 'b'
ReplaceFlatSign(name) ==
  CASE name = "D~b" -> "Db" [] name = "E~b" -> "Eb" [] name = "G~b" -> "Gb"
    [] name = "A~b" -> "Ab" [] name = "B~b" -> "Bb" [] OTHER -> name

(***************************************************************************)
(* constants.ts: pitch model.                                              *)
(***************************************************************************)
getNoteAtPosition_flipSign(stringOffset, fretIndex) ==
  LET baseIndex == 4
      absoluteIndex == JsRem(baseIndex + stringOffset + fretIndex, 12)
  IN  NOTES_SHARP[IF absoluteIndex < 0 THEN 0 - absoluteIndex ELSE absoluteIndex]

getNoteAtPosition(stringOffset, fretIndex) ==
  LET baseIndex == 4
      absoluteIndex == JsRem(baseIndex + stringOffset + fretIndex, 12)
  IN  NOTES_SHARP[IF absoluteIndex < 0 THEN absoluteIndex + 12 ELSE absoluteIndex]

fretboardToStaffNote_noCarry(stringOffset, fretIndex) ==
  LET totalSemitones == stringOffset + fretIndex
      noteIndex == JsRem(4 + totalSemitones, 12)
      normalizedIndex == IF noteIndex < 0 THEN noteIndex + 12 ELSE noteIndex
  IN  [noteName |-> NOTES_SHARP[normalizedIndex],
       octave |-> 2 + FloorDiv(totalSemitones, 12)]

fretboardToStaffNote(stringOffset, fretIndex) ==
  LET totalSemitones == stringOffset + fretIndex
      E_INDEX == 4
      noteIndex == JsRem(E_INDEX + totalSemitones, 12)
      normalizedIndex == IF noteIndex < 0 THEN noteIndex + 12 ELSE noteIndex
      baseOctave == 2
      semitonesFromE2 == totalSemitones
      octave == IF normalizedIndex < E_INDEX
                  THEN baseOctave + FloorDiv(semitonesFromE2 + (12 - E_INDEX), 12)
                  ELSE baseOctave + FloorDiv(semitonesFromE2, 12)
  IN  [noteName |-> NOTES_SHARP[normalizedIndex], octave |-> octave]

noteToSemitones(note) ==
  LET noteIndex == IndexOf(NOTES_SHARP, ReplaceFlatSign(ReplaceSharpSign(note.noteName)))
      flatIndex == IndexOf(NOTES_FLAT, ReplaceFlatSign(note.noteName))
  IN  IF noteIndex = -1
        THEN IF flatIndex = -1 THEN 0 ELSE note.octave * 12 + flatIndex
        ELSE note.octave * 12 + noteIndex

(***************************************************************************)
(* constants.ts: scale table.                                              *)
(***************************************************************************)
SCALE_INTERVALS ==
  [MAJOR |-> <<0, 2, 4, 5, 7, 9, 11>>,
   NATURAL_MINOR |-> <<0, 2, 3, 5, 7, 8, 10>>,
   DORIAN |-> <<0, 2, 3, 5, 7, 9, 10>>,
   PHRYGIAN |-> <<0, 1, 3, 5, 7, 8, 10>>,
   LYDIAN |-> <<0, 2, 4, 6, 7, 9, 11>>,
   MIXOLYDIAN |-> <<0, 2, 4, 5, 7, 9, 10>>,
   LOCRIAN |-> <<0, 1, 3, 5, 6, 8, 10>>]

getScaleNotes(root, type) ==
  LET rootIndex == IndexOf(NOTES_SHARP, root)
      intervals == IF type \in DOMAIN SCALE_INTERVALS
                     THEN SCALE_INTERVALS[type] ELSE SCALE_INTERVALS.MAJOR
  IN  IF rootIndex = -1 THEN <<>>
      ELSE [k \in 1..Len(intervals) |-> NOTES_SHARP[(rootIndex + intervals[k]) % 12]]

\* Array.prototype.includes on a sequence
Includes(seq, x) == \E k \in 1..Len(seq) : seq[k] = x

\* String.prototype.includes('#') on a label
IncludesSharp(name) == name \in {"C#", "D#", "F#", "G#", "A#"}

(***************************************************************************)
(* JavaScript numbers.  The quotients of the scheduler are kept as exact   *)
(* fractions n/d in lowest terms (d > 0).                                  *)
(***************************************************************************)
RECURSIVE Gcd(_, _)
Gcd(a, b) == IF b = 0 THEN a ELSE Gcd(b, a % b)

Abs(a) == IF a < 0 THEN 0 - a ELSE a

Num(n, d) == LET g == Gcd(Abs(n), d) IN [n |-> n \div g, d |-> d \div g]

Int2Num(k) == [n |-> k, d |-> 1]

NumAdd(a, b) ==
  LET l == (a.d \div Gcd(a.d, b.d)) * b.d
  IN  Num(a.n * (l \div a.d) + b.n * (l \div b.d), l)

NumSub(a, b) == NumAdd(a, [n |-> 0 - b.n, d |-> b.d])

NumMul(a, b) ==
  LET g1 == Gcd(Abs(a.n), b.d)
      g2 == Gcd(Abs(b.n), a.d)
  IN  Num((a.n \div g1) * (b.n \div g2), (a.d \div g2) * (b.d \div g1))

\* a / b for b > 0
NumDiv(a, b) == NumMul(a, [n |-> b.d, d |-> b.n])

NumLess(a, b) ==
  LET g == Gcd(a.d, b.d)
  IN  a.n * (b.d \div g) < b.n * (a.d \div g)

\* Math.min
NumMin(a, b) == IF NumLess(b, a) THEN b ELSE a

\* Math.floor of a non-negative fraction
NumFloor(a) == a.n \div a.d

(***************************************************************************)
(* App.tsx: the stats store and the adaptive scheduler.                    *)
(***************************************************************************)
\* the template string `${tuningId}-${note.stringIndex}-${note.fretIndex}`
StatsKey(tuningId, note) == <<tuningId, note.stringIndex, note.fretIndex>>

\* noteStats[key]: the record, or NoValue for undefined
StatOf(stats, key) == IF key \in DOMAIN stats THEN stats[key] ELSE NoValue

\* targetNoteRef.current && same stringIndex && same fretIndex
IsTarget(target, note) ==
  /\ target # NoValue
  /\ target.stringIndex = note.stringIndex
  /\ target.fretIndex = note.fretIndex

\* the weight of a record with attempts (lines 1093-1105)
statWeight_noFloor(stat, nowMs) ==
  LET totalAttempts == stat.correct + stat.incorrect + stat.timeouts
      accuracy == Num(stat.correct, totalAttempts)
      avgTime == Num(stat.totalTimeMs, totalAttempts)
      timeSinceLastSeen == nowMs - stat.lastSeen
      accuracyWeight == NumMul(NumSub(Int2Num(1), accuracy), Int2Num(50))
      speedWeight == NumMul(NumDiv(NumMin(avgTime, Int2Num(5000)), Int2Num(5000)), Int2Num(30))
      recencyWeight == NumMul(NumDiv(NumMin(Int2Num(timeSinceLastSeen), Int2Num(300000)),
                                     Int2Num(300000)), Int2Num(40))
  IN  NumAdd(NumAdd(accuracyWeight, speedWeight), recencyWeight)

statWeight_noRecencyCap(stat, nowMs) ==
  LET totalAttempts == stat.correct + stat.incorrect + stat.timeouts
      accuracy == Num(stat.correct, totalAttempts)
      avgTime == Num(stat.totalTimeMs, totalAttempts)
      timeSinceLastSeen == nowMs - stat.lastSeen
      accuracyWeight == NumMul(NumSub(Int2Num(1), accuracy), Int2Num(50))
      speedWeight == NumMul(NumDiv(NumMin(avgTime, Int2Num(5000)), Int2Num(5000)), Int2Num(30))
      recencyWeight == NumMul(NumDiv(Int2Num(timeSinceLastSeen), Int2Num(300000)), Int2Num(40))
      baseWeight == Int2Num(5)
  IN  NumAdd(NumAdd(NumAdd(baseWeight, accuracyWeight), speedWeight), recencyWeight)

statWeight(stat, nowMs) ==
  LET totalAttempts == stat.correct + stat.incorrect + stat.timeouts
      accuracy == Num(stat.correct, totalAttempts)
      avgTime == Num(stat.totalTimeMs, totalAttempts)
      timeSinceLastSeen == nowMs - stat.lastSeen
      accuracyWeight == NumMul(NumSub(Int2Num(1), accuracy), Int2Num(50))
      speedWeight == NumMul(NumDiv(NumMin(avgTime, Int2Num(5000)), Int2Num(5000)), Int2Num(30))
      recencyWeight == NumMul(NumDiv(NumMin(Int2Num(timeSinceLastSeen), Int2Num(300000)),
                                     Int2Num(300000)), Int2Num(40))
      baseWeight == Int2Num(5)
  IN  NumAdd(NumAdd(NumAdd(baseWeight, accuracyWeight), speedWeight), recencyWeight)

\* the callback of validNotes.map (lines 1079-1106)
noteWeight_keepPrevious(note, validNotes, stats, tuningId, target, nowMs) ==
  LET stat == StatOf(stats, StatsKey(tuningId, note))
  IN  IF stat = NoValue THEN Int2Num(100)
      ELSE IF stat.correct + stat.incorrect + stat.timeouts = 0 THEN Int2Num(100)
      ELSE statWeight(stat, nowMs)

noteWeight(note, validNotes, stats, tuningId, target, nowMs) ==
  LET stat == StatOf(stats, StatsKey(tuningId, note))
  IN  IF IsTarget(target, note) /\ Len(validNotes) > 1 THEN Int2Num(0)
      ELSE IF stat = NoValue THEN Int2Num(100)
      ELSE IF stat.correct + stat.incorrect + stat.timeouts = 0 THEN Int2Num(100)
      ELSE statWeight(stat, nowMs)

weightedNotes(validNotes, stats, tuningId, target, nowMs) ==
  [k \in 1..Len(validNotes) |->
     [note |-> validNotes[k],
      weight |-> noteWeight(validNotes[k], validNotes, stats, tuningId, target, nowMs)]]

\* items[lo].weight + ... + items[hi].weight.  The weights are exact
\* fractions, so their sum does not depend on the order of the additions; it
\* is taken by halves, which keeps the evaluation shallow
RECURSIVE SumRange(_, _, _)
SumRange(items, lo, hi) ==
  IF lo > hi THEN Int2Num(0)
  ELSE IF lo = hi THEN items[lo].weight
  ELSE NumAdd(SumRange(items, lo, (lo + hi) \div 2), SumRange(items, (lo + hi) \div 2 + 1, hi))

\* weightedNotes.reduce((sum, item) => sum + item.weight, 0)
SumWeights(items, k) == SumRange(items, 1, k)

\* the roulette walk (lines 1111-1114): the index of the hit, 0 when the walk
\* ends without one
RECURSIVE Walk(_, _, _)
Walk(items, k, randomVal) ==
  IF k > Len(items) THEN 0
  ELSE IF NumLess(randomVal, items[k].weight) THEN k
  ELSE Walk(items, k + 1, NumSub(randomVal, items[k].weight))

(* getSmartNextNote.  random is the value of Math.random(), a fraction in   *)
(* [0, 1).  The doubles of the walk are added and subtracted with rounding, *)
(* so the walk can end with a remainder although random < 1; drift says     *)
(* that it does, and the walk then starts from the whole totalWeight.       *)
getSmartNextNote_dropLast(validNotes, adaptiveLearning, stats, tuningId, target, nowMs, random, drift) ==
  LET items == weightedNotes(validNotes, stats, tuningId, target, nowMs)
      totalWeight == SumWeights(items, Len(items))
      randomVal == IF drift THEN totalWeight ELSE NumMul(random, totalWeight)
      hit == Walk(items, 1, randomVal)
  IN  IF ~adaptiveLearning \/ DOMAIN stats = {}
        THEN validNotes[NumFloor(NumMul(random, Int2Num(Len(validNotes)))) + 1]
        ELSE IF hit # 0 THEN items[hit].note
        ELSE [stringIndex |-> 0, fretIndex |-> 1, noteName |-> "F"]

getSmartNextNote(validNotes, adaptiveLearning, stats, tuningId, target, nowMs, random, drift) ==
  LET items == weightedNotes(validNotes, stats, tuningId, target, nowMs)
      totalWeight == SumWeights(items, Len(items))
      randomVal == IF drift THEN totalWeight ELSE NumMul(random, totalWeight)
      hit == Walk(items, 1, randomVal)
  IN  IF ~adaptiveLearning \/ DOMAIN stats = {}
        THEN validNotes[NumFloor(NumMul(random, Int2Num(Len(validNotes)))) + 1]
        ELSE IF hit # 0 THEN items[hit].note
        ELSE validNotes[Len(validNotes)]

getValidNotes_belowMaxFret(tuning, maxFret, config) ==
  LET scaleNotes == IF config.focusMode = "KEY" /\ Truthy(config.keyRoot) /\ Truthy(config.keyScale)
                      THEN getScaleNotes(config.keyRoot, config.keyScale) ELSE <<>>
      width == maxFret
      all == [k \in 1..(6 * width) |->
                LET s == (k - 1) \div width
                    f == (k - 1) % width
                IN  [stringIndex |-> s, fretIndex |-> f,
                     noteName |-> getNoteAtPosition(tuning[s + 1], f)]]
      isValid(n) == IF config.focusMode = "NATURALS" THEN ~IncludesSharp(n.noteName)
                    ELSE IF config.focusMode = "KEY" THEN Includes(scaleNotes, n.noteName)
                    ELSE TRUE
  IN  SelectSeq(all, isValid)

\* getValidNotes (lines 1259-1286) for the tuning, fret ceiling and focus of a scope
getValidNotes(tuning, maxFret, config) ==
  LET scaleNotes == IF config.focusMode = "KEY" /\ Truthy(config.keyRoot) /\ Truthy(config.keyScale)
                      THEN getScaleNotes(config.keyRoot, config.keyScale) ELSE <<>>
      width == maxFret + 1
      all == [k \in 1..(6 * width) |->
                LET s == (k - 1) \div width
                    f == (k - 1) % width
                IN  [stringIndex |-> s, fretIndex |-> f,
                     noteName |-> getNoteAtPosition(tuning[s + 1], f)]]
      isValid(n) == IF config.focusMode = "NATURALS" THEN ~IncludesSharp(n.noteName)
                    ELSE IF config.focusMode = "KEY" THEN Includes(scaleNotes, n.noteName)
                    ELSE TRUE
  IN  SelectSeq(all, isValid)

\* recordNoteResult (lines 1036-1058): the store it saves
recordNoteResult(stats, tuningId, note, isCorrect, timeTaken, isTimeout, nowMs) ==
  LET key == StatsKey(tuningId, note)
      currentStat == IF key \in DOMAIN stats THEN stats[key]
                     ELSE [correct |-> 0, incorrect |-> 0, timeouts |-> 0,
                           totalTimeMs |-> 0, lastSeen |-> 0]
      updatedStat == [correct |-> currentStat.correct + (IF isCorrect THEN 1 ELSE 0),
                      incorrect |-> currentStat.incorrect + (IF ~isCorrect /\ ~isTimeout THEN 1 ELSE 0),
                      timeouts |-> currentStat.timeouts + (IF isTimeout THEN 1 ELSE 0),
                      totalTimeMs |-> currentStat.totalTimeMs + timeTaken,
                      lastSeen |-> nowMs]
  IN  [k \in DOMAIN stats \cup {key} |-> IF k = key THEN updatedStat ELSE stats[k]]

(***************************************************************************)
(* App.tsx: the state after construction.                                  *)
(***************************************************************************)
DEFAULT_GUITAR ==
  [id |-> "default", name |-> "Classical Guitar", tuningName |-> "Standard (EADGBE)",
   tuning |-> STANDARD_TUNING_OFFSETS]

DefaultGameConfig ==
  [focusMode |-> "ALL", keyRoot |-> "C", keyScale |-> "MAJOR",
   startingFret |-> INITIAL_MAX_FRET, maxFretCap |-> TOTAL_FRETS,
   timeLimit |-> 10, adaptiveLearning |-> TRUE]

EmptyStats == [k \in {} |-> 0]

\* the useState initial values and the initial refs (lines 860-931)
Mounted ==
  /\ gameState = "MENU"
  /\ currentMaxFret = INITIAL_MAX_FRET
  /\ score = 0
  /\ streak = 0
  /\ health = MAX_HEALTH
  /\ targetNote = NoValue
  /\ isProcessing = FALSE
  /\ activePowerup = NoValue
  /\ history = <<>>
  /\ guitarProfiles = <<DEFAULT_GUITAR>>
  /\ activeGuitarId = "default"
  /\ showGuitarSettings = FALSE
  /\ editingId = ""
  /\ editForm = NoValue
  /\ now = ClockStart
  /\ noteStartTimeRef = 0
  /\ sessionInteractionsRef = <<>>
  /\ timerIntervalRef = NoValue
  /\ feedbackTimeoutRef = NoValue
  /\ genScope = [score |-> 0, history |-> <<>>]
  /\ recorded = EmptyStats
  /\ lastSched = NoValue
  /\ lastWrite = NoValue

\* the state in which the functions below are called on their own
Idle ==
  /\ Mounted
  /\ noteStats = EmptyStats
  /\ gameConfig = DefaultGameConfig

(***************************************************************************)
(* The pitch functions called on their own.                                *)
(***************************************************************************)
PitchCalls ==
  [fn : {"fretboardToStaffNote"},
   stringOffset : PitchOptionMin..PitchOptionMax,
   fretIndex : 0..TOTAL_FRETS]

PitchInit == call \in PitchCalls /\ ret = NoValue /\ Idle

\* fretboardToStaffNote, then the same conversion of the semitone count
\* re-derived from its result (noteToSemitones relative to E2)
CallFretboardToStaffNote ==
  /\ call.fn = "fretboardToStaffNote"
  /\ ret = NoValue
  /\ LET note == fretboardToStaffNote(call.stringOffset, call.fretIndex)
         semitones == noteToSemitones(note) - noteToSemitones([noteName |-> "E", octave |-> 2])
     IN  ret' = [note |-> note, semitones |-> semitones,
                 again |-> fretboardToStaffNote(semitones, 0)]
  /\ UNCHANGED <<call, gameVars>>

PitchNext == CallFretboardToStaffNote

PitchSpec == PitchInit /\ [][PitchNext]_vars

\* C1: for every total semitone count t = stringOffset + fretIndex, negative
\* ones included, fretboardToStaffNote returns the label NOTES_SHARP[(4 + t) mod 12]
\* and an octave with octave*12 + index(label) = 28 + t, and converting the
\* semitone count re-derived from the result gives the same (label, octave).
C1_StaffNoteIsAbsolutePitch ==
  (ret # NoValue /\ call.fn = "fretboardToStaffNote") =>
    LET t == call.stringOffset + call.fretIndex
    IN  /\ ret.note.noteName = NOTES_SHARP[(4 + t) % 12]
        /\ ret.note.octave * 12 + IndexOf(NOTES_SHARP, ret.note.noteName) = 28 + t
        /\ ret.semitones = t
        /\ ret.again = ret.note

\* a drop tuning below E2 whose open string sounds C2: the octave is 2 although t < 0
C1_Witness ==
  /\ ret # NoValue
  /\ call.fn = "fretboardToStaffNote"
  /\ call.stringOffset + call.fretIndex = 0 - 4
  /\ ret.note = [noteName |-> "C", octave |-> 2]

(***************************************************************************)
(* recordNoteResult called on its own, for every pair of flags.            *)
(***************************************************************************)
SampleStats ==
  [correct : {0, 9}, incorrect : {0, 1}, timeouts : {0, 1},
   totalTimeMs : {0, 10000, 60000},
   lastSeen : {ClockStart - 600000, ClockStart - 150000, ClockStart}]

SampleNotes ==
  {[stringIndex |-> 0, fretIndex |-> 0, noteName |-> "E"],
   [stringIndex |-> 1, fretIndex |-> 2, noteName |-> "B"]}

RecordCalls ==
  {[fn |-> "recordNoteResult", noteStats |-> stats, note |-> note,
    isCorrect |-> isCorrect, timeTaken |-> timeTaken, isTimeout |-> isTimeout] :
      stats \in {EmptyStats}
                 \cup {StatsKey(DEFAULT_GUITAR.tuningName, n) :> st :
                         n \in SampleNotes,
                         st \in {x \in SampleStats : x.totalTimeMs = 10000 /\ x.lastSeen = ClockStart - 150000}},
      note \in SampleNotes,
      isCorrect \in BOOLEAN,
      timeTaken \in {0, 1500, 10000},
      isTimeout \in BOOLEAN}

RecordInit == call \in RecordCalls /\ ret = NoValue /\ Idle

CallRecordNoteResult ==
  /\ call.fn = "recordNoteResult"
  /\ ret = NoValue
  /\ ret' = [noteStats |-> recordNoteResult(call.noteStats, DEFAULT_GUITAR.tuningName, call.note,
                                            call.isCorrect, call.timeTaken, call.isTimeout, now)]
  /\ UNCHANGED <<call, gameVars>>

RecordNext == CallRecordNoteResult

RecordSpec == RecordInit /\ [][RecordNext]_vars

ZeroStat == [correct |-> 0, incorrect |-> 0, timeouts |-> 0, totalTimeMs |-> 0, lastSeen |-> 0]

\* C2: recordNoteResult increments exactly one of correct / incorrect /
\* timeouts for every combination of isCorrect and isTimeout, a timeout
\* whenever isTimeout is true, adds timeTaken to totalTimeMs and sets
\* lastSeen to the current time.
C2_ExactlyOneCounter ==
  (ret # NoValue /\ call.fn = "recordNoteResult") =>
    LET key == StatsKey(DEFAULT_GUITAR.tuningName, call.note)
        before == IF key \in DOMAIN call.noteStats THEN call.noteStats[key] ELSE ZeroStat
        after == ret.noteStats[key]
        dc == after.correct - before.correct
        di == after.incorrect - before.incorrect
        dt == after.timeouts - before.timeouts
    IN  /\ {dc, di, dt} \subseteq {0, 1}
        /\ dc + di + dt = 1
        /\ call.isTimeout => dt = 1
        /\ after.totalTimeMs = before.totalTimeMs + call.timeTaken
        /\ after.lastSeen = now

(***************************************************************************)
(* getSmartNextNote called on its own.                                     *)
(***************************************************************************)
\* the first n positions of the default pool (standard tuning, frets 0..3, ALL)
SchedPool(n) ==
  SubSeq(getValidNotes(STANDARD_TUNING_OFFSETS, INITIAL_MAX_FRET, DefaultGameConfig), 1, n)

\* the pool generateNewNote builds when getValidNotes is empty (lines 1307-1311)
FallbackPool ==
  <<[stringIndex |-> 0, fretIndex |-> 1, noteName |-> DefaultGameConfig.keyRoot]>>

SchedPools == {SchedPool(n) : n \in 1..MaxPool} \cup {FallbackPool}

\* a position of no pool above
OutsideNote == [stringIndex |-> 5, fretIndex |-> 12, noteName |-> "E"]

OtherStat ==
  [correct |-> 1, incorrect |-> 1, timeouts |-> 0, totalTimeMs |-> 3000,
   lastSeen |-> ClockStart - 30000]

\* a store with first for the first position of the pool and other for its
\* last position (for a position outside the pool when the pool has one member)
SchedStats(pool, first, other) ==
  LET tuningId == DEFAULT_GUITAR.tuningName
      k1 == StatsKey(tuningId, pool[1])
      k2 == IF Len(pool) > 1 THEN StatsKey(tuningId, pool[Len(pool)])
            ELSE StatsKey(tuningId, OutsideNote)
      keys == (IF first = NoValue THEN {} ELSE {k1}) \cup (IF other = NoValue THEN {} ELSE {k2})
  IN  [k \in keys |-> IF k = k1 THEN first ELSE other]

SchedInit ==
  /\ ret = NoValue
  /\ Idle
  /\ \E pool \in SchedPools, first \in SampleStats \cup {NoValue}, other \in {NoValue, OtherStat},
        adaptive \in BOOLEAN, r \in 0..(RandSteps - 1), drift \in BOOLEAN :
       \E target \in {NoValue} \cup {pool[i] : i \in 1..Len(pool)} :
         call = [fn |-> "getSmartNextNote", validNotes |-> pool,
                 noteStats |-> SchedStats(pool, first, other), target |-> target,
                 adaptiveLearning |-> adaptive, random |-> Num(r, RandSteps), drift |-> drift]

\* which return statement of getSmartNextNote a call leaves by
SchedBranch(validNotes, adaptiveLearning, stats, tuningId, target, nowMs, random, drift) ==
  LET items == weightedNotes(validNotes, stats, tuningId, target, nowMs)
      totalWeight == SumWeights(items, Len(items))
      randomVal == IF drift THEN totalWeight ELSE NumMul(random, totalWeight)
  IN  IF ~adaptiveLearning \/ DOMAIN stats = {} THEN "uniform"
      ELSE IF Walk(items, 1, randomVal) # 0 THEN "roulette" ELSE "fallback"

CallGetSmartNextNote ==
  /\ call.fn = "getSmartNextNote"
  /\ ret = NoValue
  /\ LET tuningId == DEFAULT_GUITAR.tuningName
         branch == SchedBranch(call.validNotes, call.adaptiveLearning, call.noteStats, tuningId,
                               call.target, now, call.random, call.drift)
     IN  ret' = [note |-> getSmartNextNote(call.validNotes, call.adaptiveLearning, call.noteStats,
                                           tuningId, call.target, now, call.random, call.drift),
                 branch |-> branch,
                 weightedNotes |-> IF branch = "uniform" THEN <<>>
                                   ELSE weightedNotes(call.validNotes, call.noteStats, tuningId,
                                                      call.target, now)]
  /\ UNCHANGED <<call, gameVars>>

SchedNext == CallGetSmartNextNote

SchedSpec == SchedInit /\ [][SchedNext]_vars

SchedDone == ret # NoValue /\ call.fn = "getSmartNextNote"

\* the stat record the call holds for a note, NoValue when it has none
CallStat(note) == StatOf(call.noteStats, StatsKey(DEFAULT_GUITAR.tuningName, note))

Attempts(stat) == stat.correct + stat.incorrect + stat.timeouts

\* C6: in the adaptive branch the weight of the candidate equal to the
\* previous target is exactly 0 whenever the pool has more than one member,
\* whatever its stats; in a pool of one member it keeps a non-zero weight.
C6_PreviousTargetWeightZero ==
  SchedDone =>
    \A k \in 1..Len(ret.weightedNotes) :
      LET item == ret.weightedNotes[k]
      IN  IsTarget(call.target, item.note) =>
            IF Len(call.validNotes) > 1 THEN item.weight = Int2Num(0)
            ELSE NumLess(Int2Num(0), item.weight)

\* the previous target has a record with attempts and still weighs 0
C6_Witness ==
  /\ SchedDone
  /\ ret.branch # "uniform"
  /\ Len(call.validNotes) > 1
  /\ \E k \in 1..Len(ret.weightedNotes) :
       /\ IsTarget(call.target, ret.weightedNotes[k].note)
       /\ CallStat(ret.weightedNotes[k].note) # NoValue
       /\ Attempts(CallStat(ret.weightedNotes[k].note)) > 0
       /\ ret.weightedNotes[k].weight = Int2Num(0)

\* C8: getSmartNextNote returns an element of the pool it was given, on the
\* uniform draw, on a roulette hit and on the fall-back to the last candidate.
C8_ResultInPool ==
  SchedDone => \E k \in 1..Len(call.validNotes) : call.validNotes[k] = ret.note

\* the walk ended without a hit and the last candidate was returned
C8_Witness ==
  /\ SchedDone
  /\ ret.branch = "fallback"
  /\ ret.note = call.validNotes[Len(call.validNotes)]

\* C9: for a record with total = correct + incorrect + timeouts > 0 the weight is
\* 5 + (1 - correct/total)*50 + (min(totalTimeMs/total, 5000)/5000)*30
\*   + (min(now - lastSeen, 300000)/300000)*40,
\* here over the common denominator 7500*total; for correct=9, incorrect=1,
\* timeouts=0, totalTimeMs=10000, lastSeen=now-600000 it is exactly 56.
C9_WeightFormula ==
  SchedDone =>
    \A k \in 1..Len(ret.weightedNotes) :
      LET item == ret.weightedNotes[k]
          stat == CallStat(item.note)
          excluded == IsTarget(call.target, item.note) /\ Len(call.validNotes) > 1
          total == Attempts(stat)
          since == now - stat.lastSeen
          cappedTime == IF stat.totalTimeMs < 5000 * total THEN stat.totalTimeMs ELSE 5000 * total
          cappedSince == IF since < 300000 THEN since ELSE 300000
      IN  (~excluded /\ stat # NoValue /\ total > 0) =>
            /\ item.weight = Num(37500 * total + 375000 * (total - stat.correct)
                                   + 45 * cappedTime + total * cappedSince,
                                 7500 * total)
            /\ (stat = [correct |-> 9, incorrect |-> 1, timeouts |-> 0, totalTimeMs |-> 10000,
                        lastSeen |-> now - 600000]) => item.weight = Int2Num(56)

\* the record of the example was weighed, and weighs 56
C9_Witness ==
  /\ SchedDone
  /\ \E k \in 1..Len(ret.weightedNotes) :
       /\ CallStat(ret.weightedNotes[k].note) =
            [correct |-> 9, incorrect |-> 1, timeouts |-> 0, totalTimeMs |-> 10000,
             lastSeen |-> now - 600000]
       /\ ret.weightedNotes[k].weight = Int2Num(56)

\* C10 as stated: a position without a record or with zero attempts weighs 100,
\* and no position with recorded attempts weighs more than that.
C10_UnseenIsMaximal ==
  SchedDone =>
    \A k \in 1..Len(ret.weightedNotes) :
      LET item == ret.weightedNotes[k]
          stat == CallStat(item.note)
          excluded == IsTarget(call.target, item.note) /\ Len(call.validNotes) > 1
      IN  ~excluded =>
            IF stat = NoValue \/ Attempts(stat) = 0 THEN item.weight = Int2Num(100)
            ELSE ~NumLess(Int2Num(100), item.weight)

\* C10 amended: a position that is not the excluded previous target weighs 100
\* without a record or with zero attempts, and between 5 and 125 with
\* recorded attempts.
C10_UnseenIs100SeenUpTo125 ==
  SchedDone =>
    \A k \in 1..Len(ret.weightedNotes) :
      LET item == ret.weightedNotes[k]
          stat == CallStat(item.note)
          excluded == IsTarget(call.target, item.note) /\ Len(call.validNotes) > 1
      IN  ~excluded =>
            IF stat = NoValue \/ Attempts(stat) = 0 THEN item.weight = Int2Num(100)
            ELSE /\ ~NumLess(item.weight, Int2Num(5))
                 /\ ~NumLess(Int2Num(125), item.weight)

\* a position never answered correctly, slow and long unseen weighs 125,
\* next to a position without a record that weighs 100
C10_Witness ==
  /\ SchedDone
  /\ \E k \in 1..Len(ret.weightedNotes) : ret.weightedNotes[k].weight = Int2Num(125)
  /\ \E k \in 1..Len(ret.weightedNotes) :
       /\ CallStat(ret.weightedNotes[k].note) = NoValue
       /\ ret.weightedNotes[k].weight = Int2Num(100)

(***************************************************************************)
(* App.tsx: the game loop.                                                 *)
(*                                                                         *)
(* A callback runs with the values of the render that created it.  A scope *)
(* is the record of those values.  checkAnswer and stopGame belong to the  *)
(* latest render (RenderScope).  generateNewNote is memoized on            *)
(* [currentMaxFret, difficulty, getValidNotes, gameConfig, noteStats], so  *)
(* the one of the latest render has the latest values of its dependencies  *)
(* and the score and history of the render in which a dependency last      *)
(* changed (MemoScope).  The interval and the timeout it creates, and the  *)
(* handleTimeout, recordNoteResult, getSmartNextNote and stopGame it       *)
(* calls, keep its scope.                                                  *)
(***************************************************************************)
\* activeGuitar (line 898)
ActiveGuitarOf(profiles, id) ==
  LET found == {i \in 1..Len(profiles) : profiles[i].id = id}
  IN  IF found = {} THEN DEFAULT_GUITAR
      ELSE profiles[CHOOSE i \in found : \A j \in found : i <= j]

activeGuitar == ActiveGuitarOf(guitarProfiles, activeGuitarId)

RenderScope ==
  [noteStats |-> noteStats, currentMaxFret |-> currentMaxFret, gameConfig |-> gameConfig,
   activeGuitar |-> activeGuitar, score |-> score, history |-> history]

MemoScope ==
  [noteStats |-> noteStats, currentMaxFret |-> currentMaxFret, gameConfig |-> gameConfig,
   activeGuitar |-> activeGuitar, score |-> genScope.score, history |-> genScope.history]

\* the render after a handler: generateNewNote is created anew when one of its
\* dependencies changed, and then captures the new score and history
Rerender ==
  genScope' = IF <<noteStats', currentMaxFret', gameConfig', activeGuitar'>>
                   # <<noteStats, currentMaxFret, gameConfig, activeGuitar>>
                THEN [score |-> score', history |-> history']
                ELSE genScope

\* the number of outcomes recorded so far
RECURSIVE SumCounts(_, _)
SumCounts(f, keys) ==
  IF keys = {} THEN 0
  ELSE LET k == CHOOSE x \in keys : TRUE IN f[k].count + SumCounts(f, keys \ {k})

Outcomes == SumCounts(recorded, DOMAIN recorded)

\* the outcomes a behaviour is followed for: more of them in the games whose
\* pool is the one fallback position, and in those of a player who misses
\* every question
OutcomeBound ==
  IF call # NoValue THEN call.maxOutcomes
  ELSE IF gameConfig.focusMode = "KEY" THEN MaxStreakOutcomes ELSE MaxOutcomes

\* history variable: one more outcome for key, recorded under tuning
Count(rec, key, tuning) ==
  [k \in DOMAIN rec \cup {key} |->
     IF k = key
       THEN [count |-> (IF key \in DOMAIN rec THEN rec[key].count ELSE 0) + 1,
             tunings |-> (IF key \in DOMAIN rec THEN rec[key].tunings ELSE {}) \cup {tuning}]
       ELSE rec[k]]

\* Math.random()
Randoms == {Num(r, RandSteps) : r \in 0..(RandSteps - 1)}

\* the notes one call of getSmartNextNote can return in a scope
SmartNotes(validNotes, scope, target, nowMs) ==
  {getSmartNextNote(validNotes, scope.gameConfig.adaptiveLearning, scope.noteStats,
                    scope.activeGuitar.tuningName, target, nowMs, random, drift) :
     random \in Randoms, drift \in BOOLEAN}

\* the notes one uniform draw can return (lines 1329-1330)
UniformNotes(validNotes) ==
  {validNotes[NumFloor(NumMul(random, Int2Num(Len(validNotes)))) + 1] : random \in Randoms}

\* do { draw; attempts++ } while (the draw is the target && attempts < limit):
\* the ways the loop can end, attempt being the number of the next draw; a run
\* is the note the loop ends with and the value of attempts.  A draw that is
\* not the target ends the loop at once, one that is the target ends it only
\* as draw number limit.
RedrawRuns(draws, target, attempt, limit) ==
  LET repeats == {n \in draws : IsTarget(target, n)}
      last == IF repeats # {} /\ attempt < limit THEN limit ELSE attempt
  IN  {[note |-> n, attempts |-> a] : n \in draws \ repeats, a \in attempt..last}
        \cup {[note |-> n, attempts |-> last] : n \in repeats}

\* the notes the loop can end with
RedrawLoop(draws, target, attempt, limit) ==
  {run.note : run \in RedrawRuns(draws, target, attempt, limit)}

\* the two loops of generateNewNote (lines 1313-1338) in a scope
NextNoteRuns_noRedraw(validNotes, scope, target, nowMs) ==
  IF scope.gameConfig.adaptiveLearning
    THEN RedrawRuns(SmartNotes(validNotes, scope, target, nowMs), target, 1, 3)
    ELSE RedrawRuns(UniformNotes(validNotes), target, 1, 1)

NextNoteRuns(validNotes, scope, target, nowMs) ==
  IF scope.gameConfig.adaptiveLearning
    THEN RedrawRuns(SmartNotes(validNotes, scope, target, nowMs), target, 1, 3)
    ELSE RedrawRuns(UniformNotes(validNotes), target, 1, 10)

\* sessionInteractionsRef.current.reduce((sum, item) => sum + item.timeTakenMs, 0)
RECURSIVE SumTimes(_, _)
SumTimes(items, k) == IF k = 0 THEN 0 ELSE SumTimes(items, k - 1) + items[k].timeTakenMs

\* lines 1306-1311: an empty pool is replaced by one position, named after the
\* key root if there is one and 'F' otherwise
validNotesOrFallback_openString(validNotes, config) ==
  LET fallbackNote == IF Truthy(config.keyRoot) THEN config.keyRoot ELSE "F"
  IN  IF Len(validNotes) = 0
        THEN <<[stringIndex |-> 0, fretIndex |-> 0, noteName |-> fallbackNote]>>
        ELSE validNotes

validNotesOrFallback(validNotes, config) ==
  LET fallbackNote == IF Truthy(config.keyRoot) THEN config.keyRoot ELSE "F"
  IN  IF Len(validNotes) = 0
        THEN <<[stringIndex |-> 0, fretIndex |-> 1, noteName |-> fallbackNote]>>
        ELSE validNotes

\* generateNewNote (lines 1288-1397) in a scope
generateNewNote(scope) ==
  IF gameState # "PLAYING"
    THEN UNCHANGED <<isProcessing, activePowerup, targetNote, noteStartTimeRef,
                     timerIntervalRef, lastSched>>
    ELSE
      LET validNotes == validNotesOrFallback(
                          getValidNotes(scope.activeGuitar.tuning, scope.currentMaxFret,
                                        scope.gameConfig),
                          scope.gameConfig)
          nextNotes == {run.note : run \in NextNoteRuns(validNotes, scope, targetNote, now')}
      IN  /\ isProcessing' = FALSE
          /\ activePowerup' =
               IF activePowerup = NoValue THEN NoValue
               ELSE IF activePowerup.duration - 1 <= 0 THEN NoValue
               ELSE [activePowerup EXCEPT !.duration = activePowerup.duration - 1]
          /\ \E nextNote \in nextNotes :
               /\ targetNote' = nextNote
               /\ lastSched' = [readStats |-> scope.noteStats,
                                recorded |-> recorded,
                                adaptiveLearning |-> scope.gameConfig.adaptiveLearning,
                                poolSize |-> Len(validNotes),
                                previous |-> targetNote,
                                chosen |-> nextNote]
          /\ noteStartTimeRef' = now'
          /\ timerIntervalRef' = scope

\* the effect of lines 1399-1403, pending right after startGame
EffectPending == gameState = "PLAYING" /\ targetNote = NoValue /\ ~isProcessing

startGame ==
  /\ gameState \in {"MENU", "GAME_OVER"}
  /\ timerIntervalRef' = NoValue
  /\ feedbackTimeoutRef' = NoValue
  /\ score' = 0
  /\ streak' = 0
  /\ health' = MAX_HEALTH
  /\ activePowerup' = NoValue
  /\ currentMaxFret' = gameConfig.startingFret
  /\ targetNote' = NoValue
  /\ gameState' = "PLAYING"
  /\ isProcessing' = FALSE
  /\ sessionInteractionsRef' = <<>>
  /\ UNCHANGED <<harnessVars, history, noteStats, settingsVars,
                 gameConfig, now, noteStartTimeRef, recorded, lastSched, lastWrite>>
  /\ Rerender

\* useEffect(() => { if (PLAYING && !targetNote && !isProcessing) generateNewNote() })
EffectGenerateNewNote ==
  /\ EffectPending
  /\ now' = now
  /\ generateNewNote(MemoScope)
  /\ UNCHANGED <<harnessVars, gameState, currentMaxFret, score, streak, health, history,
                 noteStats, settingsVars, gameConfig,
                 sessionInteractionsRef, feedbackTimeoutRef, genScope, recorded, lastWrite>>

\* Math.random() of triggerPowerup's roll, one value for each of its branches
Rolls == {Num(0, 10), Num(3, 10), Num(6, 10), Num(8, 10)}

\* triggerPowerup (lines 1206-1257): the powerups it can set, NoValue for none
triggerPowerup(currentStreak, maxFret) ==
  LET duration == 2
  IN  IF currentStreak > 0 /\ currentStreak % 10 = 0
        THEN {[type |-> "SUPER_REVEAL_ALL_NATURALS", duration |-> duration]}
      ELSE IF currentStreak > 0 /\ currentStreak % 5 = 0
        THEN UNION {
               IF NumLess(roll, Num(3, 10))
                 THEN {[type |-> "FEWER_CHOICES", duration |-> duration]}
               ELSE IF NumLess(roll, Num(6, 10))
                 THEN {[type |-> "REVEAL_NATURALS_STRING", duration |-> duration,
                        value |-> NumFloor(NumMul(random, Int2Num(6)))] : random \in Randoms}
               ELSE IF NumLess(roll, Num(8, 10))
                 THEN {[type |-> "REVEAL_FRET", duration |-> duration,
                        value |-> NumFloor(NumMul(random, Int2Num(maxFret))) + 1] : random \in Randoms}
               ELSE {[type |-> "REVEAL_ALL_NOTE_LOCATIONS", duration |-> duration,
                      noteTarget |-> NATURAL_NOTES[NumFloor(NumMul(random, Int2Num(Len(NATURAL_NOTES)))) + 1]] :
                       random \in Randoms}
               : roll \in Rolls}
      ELSE {NoValue}

\* the timeout handleTimeout and checkAnswer set after a miss (lines 1457-1474, 1521-1544)
MissTimeout(genScopeOfCaller, stopScopeOfCaller) ==
  IF health - 1 <= 0
    THEN [fn |-> "stopGame", scope |-> stopScopeOfCaller, at |-> now' + 2000]
    ELSE [fn |-> "generateNewNote", scope |-> genScopeOfCaller, at |-> now' + 1500]

\* sessionInteractionsRef.current.push (lines 1061-1067)
Interaction(note, isCorrect, isTimeout, timeTaken, nowMs) ==
  [note |-> note, isCorrect |-> isCorrect, isTimeout |-> isTimeout,
   timeTakenMs |-> timeTaken, timestamp |-> nowMs]

\* milliseconds a player takes to answer
AnswerTimes == {2000}

\* a label that is not the target's
WrongLabel(note) == NOTES_SHARP[(IndexOf(NOTES_SHARP, note.noteName) + 1) % 12]

\* checkAnswer (lines 1477-1546), called from the latest render
checkAnswer(selectedNote, elapsed) ==
  /\ gameState = "PLAYING"
  /\ targetNote # NoValue
  /\ ~isProcessing
  /\ Outcomes < OutcomeBound
  /\ elapsed < gameConfig.timeLimit * 1000
  /\ now' = now + elapsed
  /\ timerIntervalRef' = NoValue
  /\ isProcessing' = TRUE
  /\ LET timeTaken == now' - noteStartTimeRef
         isCorrect == selectedNote = targetNote.noteName
         tuningId == activeGuitar.tuningName
         newScore == score + 1
         newStreak == streak + 1
         levelUp == newScore > 0 /\ newScore % 5 = 0 /\ currentMaxFret < gameConfig.maxFretCap
     IN  /\ noteStats' = recordNoteResult(noteStats, tuningId, targetNote, isCorrect, timeTaken, FALSE, now')
         /\ sessionInteractionsRef' =
              Append(sessionInteractionsRef, Interaction(targetNote, isCorrect, FALSE, timeTaken, now'))
         /\ recorded' = Count(recorded, StatsKey(tuningId, targetNote), activeGuitar.tuning)
         /\ lastWrite' = [before |-> noteStats, after |-> noteStats']
         /\ IF isCorrect
              THEN /\ score' = newScore
                   /\ streak' = newStreak
                   /\ \E newPowerup \in triggerPowerup(newStreak, currentMaxFret) :
                        /\ activePowerup' = IF newPowerup # NoValue THEN newPowerup ELSE activePowerup
                        /\ feedbackTimeoutRef' =
                             [fn |-> "generateNewNote", scope |-> MemoScope,
                              at |-> now' + (IF newPowerup # NoValue \/ levelUp THEN 1500 ELSE 800)]
                   /\ currentMaxFret' =
                        IF levelUp
                          THEN (IF currentMaxFret + 1 < gameConfig.maxFretCap
                                  THEN currentMaxFret + 1 ELSE gameConfig.maxFretCap)
                          ELSE currentMaxFret
                   /\ health' = health
              ELSE /\ streak' = 0
                   /\ activePowerup' = NoValue
                   /\ health' = (IF health - 1 <= 0 THEN 0 ELSE health - 1)
                   /\ feedbackTimeoutRef' = MissTimeout(MemoScope, RenderScope)
                   /\ UNCHANGED <<score, currentMaxFret>>
  /\ UNCHANGED <<harnessVars, gameState, targetNote, history, settingsVars, gameConfig, noteStartTimeRef, lastSched>>
  /\ Rerender

\* handleTimeout (lines 1435-1475) of the render a scope belongs to
handleTimeout(scope) ==
  /\ timerIntervalRef' = NoValue
  /\ LET timeTaken == now' - noteStartTimeRef
         tuningId == scope.activeGuitar.tuningName
     IN  /\ noteStats' = recordNoteResult(scope.noteStats, tuningId, targetNote, FALSE, timeTaken, TRUE, now')
         /\ sessionInteractionsRef' =
              Append(sessionInteractionsRef, Interaction(targetNote, FALSE, TRUE, timeTaken, now'))
         /\ recorded' = Count(recorded, StatsKey(tuningId, targetNote), scope.activeGuitar.tuning)
         /\ lastWrite' = [before |-> noteStats, after |-> noteStats']
  /\ isProcessing' = TRUE
  /\ streak' = 0
  /\ activePowerup' = NoValue
  /\ health' = (IF health - 1 <= 0 THEN 0 ELSE health - 1)
  /\ feedbackTimeoutRef' = MissTimeout(scope, scope)

\* the interval of lines 1387-1396 at the tick where remaining === 0
TimerFires ==
  /\ gameState = "PLAYING"
  /\ timerIntervalRef # NoValue
  /\ targetNote # NoValue
  /\ Outcomes < OutcomeBound
  /\ now' = noteStartTimeRef + timerIntervalRef.gameConfig.timeLimit * 1000
  /\ handleTimeout(timerIntervalRef)
  /\ UNCHANGED <<harnessVars, gameState, currentMaxFret, score, targetNote, history,
                 settingsVars, gameConfig, noteStartTimeRef, lastSched>>
  /\ Rerender

\* The interval's tick runs handleTimeout and, before React has rendered the
\* state it set, a click on an answer button is dispatched: checkAnswer (lines
\* 1477-1546) is the closure of the render before the tick, whose
\* isProcessing is false and whose noteStats, score and streak are those of
\* that render.  The queued updates are applied in order by the one render
\* that follows: the last setNoteStats and setStreak win, and the setHealth
\* updaters of both handlers run, each replacing the feedback timeout.
TimerFiresThenClick ==
  /\ gameState = "PLAYING"
  /\ timerIntervalRef # NoValue
  /\ targetNote # NoValue
  /\ ~isProcessing
  /\ Outcomes + 1 < OutcomeBound
  /\ now' = noteStartTimeRef + timerIntervalRef.gameConfig.timeLimit * 1000
  /\ timerIntervalRef' = NoValue
  /\ isProcessing' = TRUE
  /\ \E selectedNote \in {targetNote.noteName, WrongLabel(targetNote)} :
       LET scope == timerIntervalRef
           timeTaken == now' - noteStartTimeRef
           isCorrect == selectedNote = targetNote.noteName
           tuningId == activeGuitar.tuningName
           timeoutStats == recordNoteResult(scope.noteStats, scope.activeGuitar.tuningName,
                                            targetNote, FALSE, timeTaken, TRUE, now')
           timeoutRecorded == Count(recorded, StatsKey(scope.activeGuitar.tuningName, targetNote),
                                    scope.activeGuitar.tuning)
           healthAfterTimeout == IF health - 1 <= 0 THEN 0 ELSE health - 1
           newScore == score + 1
           newStreak == streak + 1
           levelUp == newScore > 0 /\ newScore % 5 = 0 /\ currentMaxFret < gameConfig.maxFretCap
       IN  /\ noteStats' = recordNoteResult(noteStats, tuningId, targetNote, isCorrect,
                                            timeTaken, FALSE, now')
           /\ sessionInteractionsRef' =
                Append(Append(sessionInteractionsRef,
                              Interaction(targetNote, FALSE, TRUE, timeTaken, now')),
                       Interaction(targetNote, isCorrect, FALSE, timeTaken, now'))
           /\ recorded' = Count(timeoutRecorded, StatsKey(tuningId, targetNote), activeGuitar.tuning)
           /\ lastWrite' = [before |-> timeoutStats, after |-> noteStats']
           /\ IF isCorrect
                THEN /\ score' = newScore
                     /\ streak' = newStreak
                     /\ \E newPowerup \in triggerPowerup(newStreak, currentMaxFret) :
                          activePowerup' = newPowerup
                     /\ currentMaxFret' =
                          IF levelUp
                            THEN (IF currentMaxFret + 1 < gameConfig.maxFretCap
                                    THEN currentMaxFret + 1 ELSE gameConfig.maxFretCap)
                            ELSE currentMaxFret
                     /\ health' = healthAfterTimeout
                     /\ feedbackTimeoutRef' = MissTimeout(scope, scope)
                ELSE /\ streak' = 0
                     /\ activePowerup' = NoValue
                     /\ health' = (IF healthAfterTimeout - 1 <= 0 THEN 0 ELSE healthAfterTimeout - 1)
                     /\ feedbackTimeoutRef' =
                          IF healthAfterTimeout - 1 <= 0
                            THEN [fn |-> "stopGame", scope |-> RenderScope, at |-> now' + 2000]
                            ELSE [fn |-> "generateNewNote", scope |-> MemoScope, at |-> now' + 1500]
                     /\ UNCHANGED <<score, currentMaxFret>>
  /\ UNCHANGED <<harnessVars, gameState, targetNote, history, settingsVars, gameConfig,
                 noteStartTimeRef, lastSched>>
  /\ Rerender

\* stopGame (lines 1405-1433) of the render a scope belongs to
stopGame(scope) ==
  LET count == Len(sessionInteractionsRef)
      totalTime == SumTimes(sessionInteractionsRef, count)
      avgTime == IF count > 0 THEN Num(totalTime, count * 1000) ELSE Int2Num(0)
      newRecord == [date |-> now', score |-> scope.score, maxFret |-> scope.currentMaxFret,
                    focusMode |-> scope.gameConfig.focusMode,
                    interactions |-> sessionInteractionsRef, avgTimeSeconds |-> avgTime]
  IN  /\ timerIntervalRef' = NoValue
      /\ gameState' = "GAME_OVER"
      /\ history' = Append(scope.history, newRecord)
      /\ sessionInteractionsRef' = <<>>

\* the timeout of feedbackTimeoutRef runs
FeedbackTimeoutFires ==
  /\ feedbackTimeoutRef # NoValue
  /\ now' = feedbackTimeoutRef.at
  /\ feedbackTimeoutRef' = NoValue
  /\ IF feedbackTimeoutRef.fn = "generateNewNote"
       THEN /\ generateNewNote(feedbackTimeoutRef.scope)
            /\ UNCHANGED <<gameState, history, sessionInteractionsRef>>
       ELSE /\ stopGame(feedbackTimeoutRef.scope)
            /\ UNCHANGED <<isProcessing, activePowerup, targetNote, noteStartTimeRef, lastSched>>
  /\ UNCHANGED <<harnessVars, currentMaxFret, score, streak, health, noteStats, settingsVars, gameConfig, recorded, lastWrite>>
  /\ Rerender

\* the game-over screen's Main Menu button (line 2093) and the effect of lines 941-946
MainMenu ==
  /\ gameState = "GAME_OVER"
  /\ gameState' = "MENU"
  /\ timerIntervalRef' = NoValue
  /\ feedbackTimeoutRef' = NoValue
  /\ UNCHANGED <<harnessVars, currentMaxFret, score, streak, health, targetNote, isProcessing,
                 activePowerup, history, noteStats, settingsVars,
                 gameConfig, now, noteStartTimeRef, sessionInteractionsRef, genScope, recorded,
                 lastSched, lastWrite>>

\* an answer button's onClick (line 2058)
AnswerButton ==
  /\ targetNote # NoValue
  /\ \E selectedNote \in {targetNote.noteName, WrongLabel(targetNote)}, elapsed \in AnswerTimes :
       checkAnswer(selectedNote, elapsed)

Init ==
  /\ call = NoValue
  /\ ret = NoValue
  /\ Mounted
  /\ noteStats = EmptyStats
  /\ \E adaptive \in BOOLEAN :
       gameConfig = [DefaultGameConfig EXCEPT !.adaptiveLearning = adaptive]

Next ==
  \/ startGame
  \/ EffectGenerateNewNote
  \/ AnswerButton
  \/ TimerFires
  \/ TimerFiresThenClick
  \/ FeedbackTimeoutFires
  \/ MainMenu

Spec == Init /\ [][Next]_vars

\* the store holds every outcome counted in rec
HoldsOutcomes(stats, rec) ==
  \A key \in DOMAIN rec :
    /\ key \in DOMAIN stats
    /\ Attempts(stats[key]) = rec[key].count

\* C3: no recorded outcome is ever lost.  After any sequence of rounds, each
\* ended by checkAnswer or by handleTimeout, the store holds for every key
\* correct + incorrect + timeouts equal to the number of outcomes recorded for
\* that key, and the latest write removed no key and decreased no counter.
C3_NoOutcomeLost ==
  /\ HoldsOutcomes(noteStats, recorded)
  /\ lastWrite # NoValue =>
       \A key \in DOMAIN lastWrite.before :
         /\ key \in DOMAIN lastWrite.after
         /\ lastWrite.after[key].correct >= lastWrite.before[key].correct
         /\ lastWrite.after[key].incorrect >= lastWrite.before[key].incorrect
         /\ lastWrite.after[key].timeouts >= lastWrite.before[key].timeouts

\* C4: when generateNewNote chooses the position of the next round, the stats
\* its scheduler reads already contain every outcome recorded so far, the one
\* of the round that just ended included.
C4_SchedulingReadIsFresh ==
  lastSched # NoValue => HoldsOutcomes(lastSched.readStats, lastSched.recorded)

\* C7: with adaptive learning enabled and a pool of more than one position,
\* the position generateNewNote chooses is never the (stringIndex, fretIndex)
\* of the immediately previous target.
C7_NoImmediateRepeat ==
  (lastSched # NoValue /\ lastSched.adaptiveLearning /\ lastSched.poolSize > 1) =>
    ~IsTarget(lastSched.previous, lastSched.chosen)

(***************************************************************************)
(* components/GuitarSettings.tsx and the callbacks App passes to it.      *)
(***************************************************************************)
TUNING_PRESETS ==
  << [name |-> "Standard (EADGBE)", offsets |-> <<0, 5, 10, 15, 19, 24>>],
     [name |-> "Drop D (DADGBE)", offsets |-> <<0 - 2, 5, 10, 15, 19, 24>>],
     [name |-> "Double Drop D (DADGBD)", offsets |-> <<0 - 2, 5, 10, 15, 19, 22>>],
     [name |-> "DADGAD", offsets |-> <<0 - 2, 5, 10, 15, 17, 22>>],
     [name |-> "Open D (DADF#AD)", offsets |-> <<0 - 2, 5, 10, 14, 17, 22>>],
     [name |-> "Open G (DGDGBD)", offsets |-> <<0 - 2, 3, 10, 15, 19, 22>>],
     [name |-> "Open C (CGCGCE)", offsets |-> <<0 - 4, 3, 8, 15, 20, 24>>],
     [name |-> "Half Step Down", offsets |-> <<0 - 1, 4, 9, 14, 18, 23>>],
     [name |-> "Whole Step Down", offsets |-> <<0 - 2, 3, 8, 13, 17, 22>>] >>

\* the options of the preset select the model chooses from
PresetChoices == {"Drop D (DADGBE)", "Custom"}

\* the <option> values of a string's select the model chooses from, as the
\* characters of e.target.value
OffsetChoices == {<<"-", "2">>, <<"-", "4">>}

\* the strings whose select the model changes (0-based)
StringChoices == {0}

DigitValue(c) ==
  CASE c = "0" -> 0 [] c = "1" -> 1 [] c = "2" -> 2 [] c = "3" -> 3 [] c = "4" -> 4
    [] c = "5" -> 5 [] c = "6" -> 6 [] c = "7" -> 7 [] c = "8" -> 8 [] c = "9" -> 9

RECURSIVE ParseDigits(_, _)
ParseDigits(chars, k) ==
  IF k = 0 THEN 0 ELSE ParseDigits(chars, k - 1) * 10 + DigitValue(chars[k])

\* parseInt(offsetValue, 10) of an option's value
ParseInt(chars) ==
  IF chars[1] = "-" THEN 0 - ParseDigits(Tail(chars), Len(chars) - 1)
  ELSE ParseDigits(chars, Len(chars))

\* TUNING_PRESETS.find(p => p.name === presetName), NoValue for undefined
FindPreset(presetName) ==
  LET found == {i \in 1..Len(TUNING_PRESETS) : TUNING_PRESETS[i].name = presetName}
  IN  IF found = {} THEN NoValue ELSE TUNING_PRESETS[CHOOSE i \in found : TRUE]

\* the edit panel is rendered (line 183)
EditPanel == showGuitarSettings /\ Truthy(editingId) /\ editForm # NoValue

\* saveGuitars (lines 1006-1011)
saveGuitars(profiles, activeId) ==
  /\ guitarProfiles' = profiles
  /\ activeGuitarId' = activeId

\* what a settings handler leaves alone
SettingsFrame ==
  UNCHANGED <<harnessVars, gameState, currentMaxFret, score, streak, health, targetNote,
              isProcessing, activePowerup, history, gameConfig, noteStartTimeRef,
              sessionInteractionsRef, timerIntervalRef, feedbackTimeoutRef, lastSched>>

\* the header's settings button (line 1698)
OpenSettings ==
  /\ ~showGuitarSettings
  /\ showGuitarSettings' = TRUE
  /\ SettingsFrame
  /\ UNCHANGED <<guitarProfiles, activeGuitarId, editingId, editForm, noteStats, now, genScope,
                 recorded, lastWrite>>

\* onClose (line 1661): the modal unmounts and its state is dropped
onClose ==
  /\ showGuitarSettings
  /\ showGuitarSettings' = FALSE
  /\ editingId' = ""
  /\ editForm' = NoValue
  /\ SettingsFrame
  /\ UNCHANGED <<guitarProfiles, activeGuitarId, noteStats, now, genScope, recorded, lastWrite>>

\* onProfileChange (line 1647), from a profile card's onClick (line 131)
onProfileChange(id) ==
  /\ showGuitarSettings
  /\ saveGuitars(guitarProfiles, id)
  /\ SettingsFrame
  /\ UNCHANGED <<showGuitarSettings, editingId, editForm, noteStats, now, recorded, lastWrite>>
  /\ Rerender

\* handleStartEdit (lines 28-31)
handleStartEdit(profile) ==
  /\ showGuitarSettings
  /\ editingId' = profile.id
  /\ editForm' = profile
  /\ SettingsFrame
  /\ UNCHANGED <<guitarProfiles, activeGuitarId, showGuitarSettings, noteStats, now, genScope,
                 recorded, lastWrite>>

\* handleSaveEdit (lines 33-39) with onProfileUpdate (lines 1648-1651)
handleSaveEdit ==
  /\ EditPanel
  /\ saveGuitars([i \in 1..Len(guitarProfiles) |->
                    IF guitarProfiles[i].id = editForm.id THEN editForm ELSE guitarProfiles[i]],
                 activeGuitarId)
  /\ editingId' = ""
  /\ editForm' = NoValue
  /\ SettingsFrame
  /\ UNCHANGED <<showGuitarSettings, noteStats, now, recorded, lastWrite>>
  /\ Rerender

\* handleCreateNew (lines 41-52) with onProfileCreate (lines 1652-1655);
\* Date.now() has advanced since the last profile was created
handleCreateNew ==
  /\ showGuitarSettings
  /\ Len(guitarProfiles) < MaxProfiles
  /\ now' = now + 1
  /\ LET newProfile == [id |-> ToString(now'), name |-> "New Guitar",
                        tuningName |-> "Standard (EADGBE)", tuning |-> STANDARD_TUNING_OFFSETS]
     IN  /\ saveGuitars(Append(guitarProfiles, newProfile), activeGuitarId)
         /\ editingId' = newProfile.id
         /\ editForm' = newProfile
  /\ SettingsFrame
  /\ UNCHANGED <<showGuitarSettings, noteStats, recorded, lastWrite>>
  /\ Rerender

\* handleTuningPresetChange (lines 54-69)
handleTuningPresetChange(presetName) ==
  /\ EditPanel
  /\ editForm' =
       IF presetName = "Custom" THEN [editForm EXCEPT !.tuningName = "Custom"]
       ELSE LET preset == FindPreset(presetName)
            IN  IF preset # NoValue
                  THEN [editForm EXCEPT !.tuningName = preset.name, !.tuning = preset.offsets]
                  ELSE editForm
  /\ SettingsFrame
  /\ UNCHANGED <<guitarProfiles, activeGuitarId, showGuitarSettings, editingId, noteStats, now,
                 genScope, recorded, lastWrite>>

\* handleStringTuneChange (lines 71-80)
handleStringTuneChange(stringIdx, offsetValue) ==
  /\ EditPanel
  /\ editForm' = [editForm EXCEPT !.tuningName = "Custom",
                                  !.tuning[stringIdx + 1] = ParseInt(offsetValue)]
  /\ SettingsFrame
  /\ UNCHANGED <<guitarProfiles, activeGuitarId, showGuitarSettings, editingId, noteStats, now,
                 genScope, recorded, lastWrite>>

\* the edit panel's Cancel button (line 233)
CancelEdit ==
  /\ EditPanel
  /\ editingId' = ""
  /\ SettingsFrame
  /\ UNCHANGED <<guitarProfiles, activeGuitarId, showGuitarSettings, editForm, noteStats, now,
                 genScope, recorded, lastWrite>>

\* the position outcomes are recorded for
RecordedNote == [stringIndex |-> 0, fretIndex |-> 0, noteName |-> getNoteAtPosition(activeGuitar.tuning[1], 0)]

\* recordNoteResult as checkAnswer calls it (line 1487), for the guitar that is active
RecordOutcome(isCorrect, timeTaken) ==
  /\ Outcomes < MaxRecorded
  /\ noteStats' = recordNoteResult(noteStats, activeGuitar.tuningName, RecordedNote, isCorrect,
                                   timeTaken, FALSE, now)
  /\ recorded' = Count(recorded, StatsKey(activeGuitar.tuningName, RecordedNote), activeGuitar.tuning)
  /\ lastWrite' = [before |-> noteStats, after |-> noteStats']
  /\ SettingsFrame
  /\ UNCHANGED <<settingsVars, now>>
  /\ Rerender

SettingsInit ==
  /\ call = NoValue
  /\ ret = NoValue
  /\ Idle

SettingsNext ==
  \/ OpenSettings
  \/ onClose
  \/ \E i \in 1..Len(guitarProfiles) : onProfileChange(guitarProfiles[i].id)
  \/ \E i \in 1..Len(guitarProfiles) : handleStartEdit(guitarProfiles[i])
  \/ handleSaveEdit
  \/ handleCreateNew
  \/ \E presetName \in PresetChoices : handleTuningPresetChange(presetName)
  \/ \E stringIdx \in StringChoices, offsetValue \in OffsetChoices :
       handleStringTuneChange(stringIdx, offsetValue)
  \/ CancelEdit
  \/ \E isCorrect \in BOOLEAN, timeTaken \in AnswerTimes : RecordOutcome(isCorrect, timeTaken)

SettingsSpec == SettingsInit /\ [][SettingsNext]_vars

\* C5: two guitar profiles whose tuning offsets differ never share a stats
\* key: the key of a position under one profile differs from its key under a
\* profile with other offsets, and every key of the store has been written
\* under one tuning only.
C5_TuningsNeverShareKey ==
  /\ \A i, j \in 1..Len(guitarProfiles) :
       guitarProfiles[i].tuning # guitarProfiles[j].tuning =>
         StatsKey(guitarProfiles[i].tuningName, RecordedNote)
           # StatsKey(guitarProfiles[j].tuningName, RecordedNote)
  /\ \A key \in DOMAIN recorded : Cardinality(recorded[key].tunings) <= 1

(***************************************************************************)
(* The selection of generateNewNote (lines 1313-1338) called on its own.  *)
(***************************************************************************)
SelectInit ==
  /\ ret = NoValue
  /\ Idle
  /\ \E pool \in SchedPools, first \in SampleStats \cup {NoValue}, other \in {NoValue, OtherStat},
        adaptive \in BOOLEAN :
       \E target \in {NoValue} \cup {pool[i] : i \in 1..Len(pool)} :
         call = [fn |-> "selectNextNote", validNotes |-> pool,
                 noteStats |-> SchedStats(pool, first, other), target |-> target,
                 adaptiveLearning |-> adaptive]

\* the values the selection reads from its closure
SelectScope ==
  [noteStats |-> call.noteStats, activeGuitar |-> DEFAULT_GUITAR,
   gameConfig |-> [DefaultGameConfig EXCEPT !.adaptiveLearning = call.adaptiveLearning]]

CallSelectNextNote ==
  /\ ret = NoValue
  /\ call.fn = "selectNextNote"
  /\ \E run \in NextNoteRuns(call.validNotes, SelectScope, call.target, now) :
       ret' = [note |-> run.note, attempts |-> run.attempts]
  /\ UNCHANGED <<call, gameVars>>

SelectNext == CallSelectNextNote

SelectSpec == SelectInit /\ [][SelectNext]_vars

\* C11: when adaptive learning is disabled or the store is empty, the next
\* position is a member of the pool drawn at most 10 times, and it is the
\* previous target only when all 10 draws were made.
C11_UniformRedrawnUpTo10 ==
  (ret # NoValue /\ call.fn = "selectNextNote"
     /\ (~call.adaptiveLearning \/ DOMAIN call.noteStats = {})) =>
    /\ \E i \in 1..Len(call.validNotes) : call.validNotes[i] = ret.note
    /\ ret.attempts <= 10
    /\ IsTarget(call.target, ret.note) => ret.attempts = 10

\* C11 (amended): the selection returns a member of the pool; with adaptive
\* learning disabled it makes at most 10 uniform draws and returns the
\* previous target only after 10; with adaptive learning enabled and an empty
\* store it makes at most 3 uniform draws and returns the previous target
\* only after 3.
C11_UniformRedrawnUpTo10Or3 ==
  (ret # NoValue /\ call.fn = "selectNextNote"
     /\ (~call.adaptiveLearning \/ DOMAIN call.noteStats = {})) =>
    LET limit == IF call.adaptiveLearning THEN 3 ELSE 10
    IN  /\ \E i \in 1..Len(call.validNotes) : call.validNotes[i] = ret.note
        /\ ret.attempts <= limit
        /\ IsTarget(call.target, ret.note) => ret.attempts = limit

\* a repeat accepted after 10 uniform draws from a pool of several positions
C11_Witness ==
  /\ ret # NoValue
  /\ call.fn = "selectNextNote"
  /\ ~call.adaptiveLearning
  /\ Len(call.validNotes) > 1
  /\ IsTarget(call.target, ret.note)
  /\ ret.attempts = 10

(***************************************************************************)
(* getNoteAtPosition called on its own, for offsets an octave beyond the   *)
(* options of the tuning editor on both sides.                             *)
(***************************************************************************)
NoteCalls ==
  {[fn |-> "getNoteAtPosition", stringOffset |-> o, fretIndex |-> f] :
     o \in (PitchOptionMin - 12)..(PitchOptionMax + 12), f \in 0..TOTAL_FRETS}

NoteInit ==
  /\ ret = NoValue
  /\ Idle
  /\ call \in NoteCalls

CallGetNoteAtPosition ==
  /\ ret = NoValue
  /\ call.fn = "getNoteAtPosition"
  /\ ret' = [note |-> getNoteAtPosition(call.stringOffset, call.fretIndex),
             octaveUp |-> getNoteAtPosition(call.stringOffset, call.fretIndex + 12)]
  /\ UNCHANGED <<call, gameVars>>

NoteNext == CallGetNoteAtPosition

NoteSpec == NoteInit /\ [][NoteNext]_vars

\* C12: for every offset, negative ones included, and every fret >= 0,
\* getNoteAtPosition returns the label at chromatic index
\* (4 + offset + fret) mod 12 taken in 0..11, and the label 12 frets higher
\* is the same.
C12_NoteIsChromaticIndex ==
  (ret # NoValue /\ call.fn = "getNoteAtPosition") =>
    /\ ret.note = NOTES_SHARP[(4 + call.stringOffset + call.fretIndex) % 12]
    /\ ret.octaveUp = ret.note

\* a call whose index 4 + offset + fret is negative
C12_Witness ==
  /\ ret # NoValue
  /\ call.fn = "getNoteAtPosition"
  /\ 4 + call.stringOffset + call.fretIndex < 0
  /\ ret.note = "G#"

(***************************************************************************)
(* constants.ts: getDisplayNoteName.                                       *)
(***************************************************************************)
PREFER_FLATS_MAJOR == <<"F", "A#", "D#", "G#", "C#", "F#">>

MODE_OFFSETS ==
  [MAJOR |-> 0, DORIAN |-> 2, PHRYGIAN |-> 4, LYDIAN |-> 5, MIXOLYDIAN |-> 7,
   NATURAL_MINOR |-> 9, LOCRIAN |-> 11]

\* name.replace('#', the Unicode sharp sign)
WithSharpSign(name) ==
  CASE name = "C#" -> "C~#" [] name = "D#" -> "D~#" [] name = "F#" -> "F~#"
    [] name = "G#" -> "G~#" [] name = "A#" -> "A~#" [] OTHER -> name

\* name.replace('b', the Unicode flat sign): the first 'b' of the label
WithFlatSign(name) ==
  CASE name = "Db" -> "D~b" [] name = "Eb" -> "E~b" [] name = "Gb" -> "G~b"
    [] name = "Ab" -> "A~b" [] name = "Bb" -> "B~b" [] OTHER -> name

getDisplayNoteName_preferenceFirst(noteName, keyRoot, keyScale, accidentalPreference) ==
  LET noteIndex == IndexOf(NOTES_SHARP, noteName)
      keyContextFound == Truthy(keyRoot) /\ Truthy(keyScale) /\ keyScale \in DOMAIN MODE_OFFSETS
      rootIndex == IndexOf(NOTES_SHARP, keyRoot)
      offset == MODE_OFFSETS[keyScale]
      remainder == JsRem(rootIndex - offset, 12)
      relativeMajorIndex == IF remainder < 0 THEN remainder + 12 ELSE remainder
      relativeMajorRoot == NOTES_SHARP[relativeMajorIndex]
      useFlat == IF accidentalPreference = "FLAT" THEN TRUE
                 ELSE keyContextFound /\ rootIndex # -1
                      /\ Includes(PREFER_FLATS_MAJOR, relativeMajorRoot)
  IN  IF ~IncludesSharp(noteName) THEN noteName
      ELSE IF noteIndex = -1 THEN noteName
      ELSE IF useFlat THEN WithFlatSign(NOTES_FLAT[noteIndex])
      ELSE WithSharpSign(noteName)

getDisplayNoteName_rootAsMajor(noteName, keyRoot, keyScale, accidentalPreference) ==
  LET noteIndex == IndexOf(NOTES_SHARP, noteName)
      keyContextFound == Truthy(keyRoot) /\ Truthy(keyScale) /\ keyScale \in DOMAIN MODE_OFFSETS
      rootIndex == IndexOf(NOTES_SHARP, keyRoot)
      relativeMajorRoot == NOTES_SHARP[rootIndex]
      useFlat == IF keyContextFound
                   THEN rootIndex # -1 /\ Includes(PREFER_FLATS_MAJOR, relativeMajorRoot)
                   ELSE accidentalPreference = "FLAT"
  IN  IF ~IncludesSharp(noteName) THEN noteName
      ELSE IF noteIndex = -1 THEN noteName
      ELSE IF useFlat THEN WithFlatSign(NOTES_FLAT[noteIndex])
      ELSE WithSharpSign(noteName)

\* getDisplayNoteName (lines 43-89); "" stands for a null keyRoot or keyScale
getDisplayNoteName(noteName, keyRoot, keyScale, accidentalPreference) ==
  LET noteIndex == IndexOf(NOTES_SHARP, noteName)
      keyContextFound == Truthy(keyRoot) /\ Truthy(keyScale) /\ keyScale \in DOMAIN MODE_OFFSETS
      rootIndex == IndexOf(NOTES_SHARP, keyRoot)
      offset == MODE_OFFSETS[keyScale]
      remainder == JsRem(rootIndex - offset, 12)
      relativeMajorIndex == IF remainder < 0 THEN remainder + 12 ELSE remainder
      relativeMajorRoot == NOTES_SHARP[relativeMajorIndex]
      useFlat == IF keyContextFound
                   THEN rootIndex # -1 /\ Includes(PREFER_FLATS_MAJOR, relativeMajorRoot)
                   ELSE accidentalPreference = "FLAT"
  IN  IF ~IncludesSharp(noteName) THEN noteName
      ELSE IF noteIndex = -1 THEN noteName
      ELSE IF useFlat THEN WithFlatSign(NOTES_FLAT[noteIndex])
      ELSE WithSharpSign(noteName)

\* the key roots of the calls: the 12 labels, a flat spelling that is no
\* label, and null
DisplayRoots == {NOTES_SHARP[i] : i \in 0..11} \cup {"Db", ""}

\* the values of type ScaleType
DisplayScales == DOMAIN MODE_OFFSETS \cup {""}

DisplayInit ==
  /\ ret = NoValue
  /\ Idle
  /\ \E i \in 0..11, keyRoot \in DisplayRoots, keyScale \in DisplayScales :
       call = [fn |-> "getDisplayNoteName", noteName |-> NOTES_SHARP[i],
               keyRoot |-> keyRoot, keyScale |-> keyScale]

\* the same call under each of the two global preferences
CallGetDisplayNoteName ==
  /\ ret = NoValue
  /\ call.fn = "getDisplayNoteName"
  /\ ret' = [SHARP |-> getDisplayNoteName(call.noteName, call.keyRoot, call.keyScale, "SHARP"),
             FLAT |-> getDisplayNoteName(call.noteName, call.keyRoot, call.keyScale, "FLAT")]
  /\ UNCHANGED <<call, gameVars>>

DisplayNext == CallGetDisplayNoteName

DisplaySpec == DisplayInit /\ [][DisplayNext]_vars

DisplayDone == ret # NoValue /\ call.fn = "getDisplayNoteName"

\* C13: for an accidental pitch class and a key context (keyRoot and keyScale
\* both given) the spelling is the same under the preferences SHARP and FLAT;
\* without a key context the preference decides: SHARP gives the sharp
\* spelling and FLAT the flat one.
C13_KeyContextOverridesPreference ==
  (DisplayDone /\ IncludesSharp(call.noteName)) =>
    IF Truthy(call.keyRoot) /\ Truthy(call.keyScale)
      THEN ret.SHARP = ret.FLAT
      ELSE /\ ret.SHARP = WithSharpSign(call.noteName)
           /\ ret.FLAT = WithFlatSign(NOTES_FLAT[IndexOf(NOTES_SHARP, call.noteName)])
           /\ ret.SHARP # ret.FLAT

\* a flat spelling chosen by the key although the preference is SHARP
C13_Witness ==
  /\ DisplayDone
  /\ call.noteName = "A#"
  /\ call.keyRoot = "D"
  /\ call.keyScale = "NATURAL_MINOR"
  /\ ret.SHARP = "B~b"
  /\ ret.FLAT = "B~b"

\* C14: for an accidental pitch class i, a key root r among the 12 labels and
\* a mode m, the result is the flat-table label at i exactly when the relative
\* major root at (index(r) - MODE_OFFSETS[m]) mod 12 is one of F, A#, D#, G#,
\* C#, F#, and the sharp-table label at i otherwise (each written with its
\* accidental sign); a natural label is returned unchanged; key F MAJOR spells
\* pitch class 10 as B flat.
C14_FlatIffRelativeMajorPrefersFlats ==
  (DisplayDone /\ call.keyRoot \in {NOTES_SHARP[i] : i \in 0..11} /\ Truthy(call.keyScale)) =>
    LET i == IndexOf(NOTES_SHARP, call.noteName)
        major == NOTES_SHARP[(IndexOf(NOTES_SHARP, call.keyRoot) - MODE_OFFSETS[call.keyScale]) % 12]
        spelled == IF major \in {"F", "A#", "D#", "G#", "C#", "F#"}
                     THEN WithFlatSign(NOTES_FLAT[i]) ELSE WithSharpSign(NOTES_SHARP[i])
    IN  /\ IncludesSharp(call.noteName) => (ret.SHARP = spelled /\ ret.FLAT = spelled)
        /\ ~IncludesSharp(call.noteName) => (ret.SHARP = call.noteName /\ ret.FLAT = call.noteName)
        /\ (call.keyRoot = "F" /\ call.keyScale = "MAJOR" /\ i = 10) => ret.SHARP = "B~b"

\* key F MAJOR and pitch class 10
C14_Witness ==
  /\ DisplayDone
  /\ call.keyRoot = "F"
  /\ call.keyScale = "MAJOR"
  /\ call.noteName = NOTES_SHARP[10]
  /\ ret.FLAT = "B~b"

(***************************************************************************)
(* getValidNotes called on its own.                                        *)
(***************************************************************************)
\* the tunings of the calls: standard, Open C and Half Step Down
PoolTunings == {TUNING_PRESETS[1].offsets, TUNING_PRESETS[7].offsets, TUNING_PRESETS[8].offsets}

\* key roots of the calls; "Db" is no label of NOTES_SHARP and "" is null
PoolRoots == {"C", "F#", "Db", ""}

\* key scales of the calls; "" is null
PoolScales == {"MAJOR", "LOCRIAN", ""}

PoolInit ==
  /\ ret = NoValue
  /\ Idle
  /\ \E tuning \in PoolTunings, maxFret \in 0..TOTAL_FRETS,
        focusMode \in {"ALL", "NATURALS", "KEY"}, keyRoot \in PoolRoots, keyScale \in PoolScales :
       call = [fn |-> "getValidNotes", tuning |-> tuning, currentMaxFret |-> maxFret,
               gameConfig |-> [DefaultGameConfig EXCEPT !.focusMode = focusMode,
                                                        !.keyRoot = keyRoot,
                                                        !.keyScale = keyScale]]

CallGetValidNotes ==
  /\ ret = NoValue
  /\ call.fn = "getValidNotes"
  /\ ret' = [validNotes |-> getValidNotes(call.tuning, call.currentMaxFret, call.gameConfig)]
  /\ UNCHANGED <<call, gameVars>>

PoolNext == CallGetValidNotes

PoolSpec == PoolInit /\ [][PoolNext]_vars

PoolDone == ret # NoValue /\ call.fn = "getValidNotes"

\* the focus filter on a note name, as the claim states it
PassesFocus(name, config) ==
  CASE config.focusMode = "ALL" -> TRUE
    [] config.focusMode = "NATURALS" -> name \in {"C", "D", "E", "F", "G", "A", "B"}
    [] config.focusMode = "KEY" ->
         /\ Truthy(config.keyRoot)
         /\ Truthy(config.keyScale)
         /\ LET scale == getScaleNotes(config.keyRoot, config.keyScale)
            IN  name \in {scale[k] : k \in 1..Len(scale)}

\* C15: getValidNotes returns exactly the positions (s in 0..5, f in
\* 0..maxFret) whose note name passes the focus filter, each once, ordered by
\* string and then by fret; for standard tuning, maxFret = 3 and focus ALL
\* the pool has 24 positions and position (0, 0) is E.
C15_PoolIsFilteredGrid ==
  PoolDone =>
    LET pool == ret.validNotes
    IN  /\ \A k \in 1..Len(pool) :
             /\ pool[k].stringIndex \in 0..5
             /\ pool[k].fretIndex \in 0..call.currentMaxFret
             /\ pool[k].noteName = getNoteAtPosition(call.tuning[pool[k].stringIndex + 1],
                                                     pool[k].fretIndex)
             /\ PassesFocus(pool[k].noteName, call.gameConfig)
        /\ \A s \in 0..5, f \in 0..call.currentMaxFret :
             PassesFocus(getNoteAtPosition(call.tuning[s + 1], f), call.gameConfig) =>
               \E k \in 1..Len(pool) : pool[k].stringIndex = s /\ pool[k].fretIndex = f
        /\ \A j, k \in 1..Len(pool) :
             j < k => \/ pool[j].stringIndex < pool[k].stringIndex
                      \/ /\ pool[j].stringIndex = pool[k].stringIndex
                         /\ pool[j].fretIndex < pool[k].fretIndex
        /\ (call.tuning = STANDARD_TUNING_OFFSETS /\ call.currentMaxFret = 3
              /\ call.gameConfig.focusMode = "ALL") =>
             /\ Len(pool) = 24
             /\ pool[1] = [stringIndex |-> 0, fretIndex |-> 0, noteName |-> NOTES_SHARP[4]]

\* the pool of the example
C15_Witness ==
  /\ PoolDone
  /\ call.tuning = STANDARD_TUNING_OFFSETS
  /\ call.currentMaxFret = 3
  /\ call.gameConfig.focusMode = "ALL"
  /\ Len(ret.validNotes) = 24

(***************************************************************************)
(* One round on its own: the pool, the target and the answer options that  *)
(* generateNewNote builds for a closure drawn in the initial state.        *)
(***************************************************************************)
MaxRoundFret == 2   \* the deepest fret of the rounds

\* a 12-entry label table as the array it is
Labels(table) == [k \in 1..12 |-> table[k - 1]]

\* array.sort(() => 0.5 - Math.random()): the comparator answers at random, so
\* the array ends in an order that depends on the engine and on the draws; the
\* orders kept are the rotations of the array and of its reverse
Shuffled(seq) ==
  LET Reverse(s) == [k \in 1..Len(s) |-> s[Len(s) + 1 - k]]
      Rotate(s, r) == [k \in 1..Len(s) |-> s[((k - 1 + r) % Len(s)) + 1]]
  IN  IF seq = <<>> THEN {<<>>}
      ELSE {Rotate(s, r) : s \in {seq, Reverse(seq)}, r \in 0..(Len(seq) - 1)}

\* lines 1346-1351 and 1362-1369: the labels the focus mode allows
allowedDistractors_ignoreFocus(config) == Labels(NOTES_SHARP)

allowedDistractors(config) ==
  IF config.focusMode = "NATURALS" THEN NATURAL_NOTES
  ELSE IF config.focusMode = "KEY" /\ Truthy(config.keyRoot) /\ Truthy(config.keyScale)
    THEN getScaleNotes(config.keyRoot, config.keyScale)
  ELSE Labels(NOTES_SHARP)

\* allowedDistractors.filter(n => n !== nextNote.noteName)
possibleDistractors_unfiltered(allowed, noteName) == allowed

possibleDistractors(allowed, noteName) == SelectSeq(allowed, LAMBDA n : n # noteName)

\* lines 1354-1355: Math.min(isFewerChoices ? 1 : 4, possibleDistractors.length)
safeNumDistractors_alwaysFour(isFewerChoices, possible) ==
  IF 4 <= Len(possible) THEN 4 ELSE Len(possible)

safeNumDistractors(isFewerChoices, possible) ==
  LET numDistractors == IF isFewerChoices THEN 1 ELSE 4
  IN  IF numDistractors <= Len(possible) THEN numDistractors ELSE Len(possible)

\* lines 1343-1380: the lists setAnswerOptions can be called with
answerOptions(difficulty, config, noteName, currentPowerup) ==
  LET isFewerChoices == currentPowerup # NoValue /\ currentPowerup.type = "FEWER_CHOICES"
      pool == allowedDistractors(config)
      possible == possibleDistractors(pool, noteName)
      count == safeNumDistractors(isFewerChoices, possible)
  IN  IF difficulty = "EASY"
        THEN UNION {Shuffled(SubSeq(distractors, 1, count) \o <<noteName>>) :
                      distractors \in Shuffled(possible)}
      ELSE IF isFewerChoices
        THEN IF possible = <<>> THEN {<<noteName>>}
             ELSE UNION {Shuffled(<<noteName, possible[i]>>) : i \in 1..Len(possible)}
      ELSE {pool}

\* the key roots and scales of a round: the select of the settings offers the
\* labels of NOTES_SHARP, and the code provides for a null root and a null scale
RoundRoots == {"C", "F#", ""}

RoundScales == {"MAJOR", "LOCRIAN", ""}

RoundPowerups ==
  {NoValue, [type |-> "FEWER_CHOICES", duration |-> 2],
   [type |-> "SUPER_REVEAL_ALL_NATURALS", duration |-> 1]}

\* the configurations of a round: the key is varied under the KEY focus, the
\* other focus modes are taken with the key of the initial configuration
RoundConfigs ==
  {[DefaultGameConfig EXCEPT !.focusMode = "KEY", !.keyRoot = keyRoot,
                             !.keyScale = keyScale, !.adaptiveLearning = FALSE] :
     keyRoot \in RoundRoots, keyScale \in RoundScales}
    \cup {[DefaultGameConfig EXCEPT !.focusMode = focusMode, !.adaptiveLearning = FALSE] :
            focusMode \in {"ALL", "NATURALS"}}

\* a fretboard round: what generateNewNote reads
FretboardRound ==
  \E config \in RoundConfigs, maxFret \in 1..MaxRoundFret, difficulty \in {"EASY", "HARD"},
     currentPowerup \in RoundPowerups, repeat \in BOOLEAN :
    LET validNotes == validNotesOrFallback(
                        getValidNotes(STANDARD_TUNING_OFFSETS, maxFret, config), config)
    IN  call = [fn |-> "generateNewNote", tuning |-> STANDARD_TUNING_OFFSETS,
                currentMaxFret |-> maxFret, gameConfig |-> config, difficulty |-> difficulty,
                currentPowerup |-> currentPowerup,
                targetNote |-> IF repeat THEN validNotes[1] ELSE NoValue]

\* generateNewNote (lines 1288-1397): the pool, the target and the options
CallGenerateNewNote ==
  /\ ret = NoValue
  /\ call.fn = "generateNewNote"
  /\ LET valid == getValidNotes(call.tuning, call.currentMaxFret, call.gameConfig)
         validNotes == validNotesOrFallback(valid, call.gameConfig)
         draws == {validNotes[i] : i \in 1..Len(validNotes)}
     IN  \E run \in RedrawRuns(draws, call.targetNote, 1, 10) :
           \E options \in answerOptions(call.difficulty, call.gameConfig, run.note.noteName,
                                        call.currentPowerup) :
             ret' = [poolWasEmpty |-> Len(valid) = 0,
                     validNotes |-> validNotes,
                     targetNote |-> run.note,
                     answerOptions |-> options]
  /\ UNCHANGED <<call, gameVars>>

(***************************************************************************)
(* Staff rounds.  A note string is the sequence of its characters.         *)
(***************************************************************************)
MaxNoteCount == 2   \* the longest sequence of notes of a staff round

\* String.prototype.toUpperCase on one character of a note string
ToUpperCase(c) ==
  CASE c = "a" -> "A" [] c = "b" -> "B" [] c = "c" -> "C" [] c = "d" -> "D"
    [] c = "e" -> "E" [] c = "f" -> "F" [] c = "g" -> "G" [] OTHER -> c

\* parseNoteString: match(/^([A-Ga-g][#b]?)(\d)$/), NoValue for null
parseNoteString(noteStr) ==
  LET letters == {"A", "B", "C", "D", "E", "F", "G", "a", "b", "c", "d", "e", "f", "g"}
      digits == {"0", "1", "2", "3", "4", "5", "6", "7", "8", "9"}
  IN  IF Len(noteStr) = 2 /\ noteStr[1] \in letters /\ noteStr[2] \in digits
        THEN [noteName |-> ToUpperCase(noteStr[1]), octave |-> ParseInt(<<noteStr[2]>>)]
      ELSE IF Len(noteStr) = 3 /\ noteStr[1] \in letters /\ noteStr[2] \in {"#", "b"}
              /\ noteStr[3] \in digits
        THEN [noteName |-> ToUpperCase(noteStr[1]) \o ToUpperCase(noteStr[2]),
              octave |-> ParseInt(<<noteStr[3]>>)]
      ELSE NoValue

\* the label set of the staff generators (switch (focusMode))
allowedNoteNames(focusMode, keyRoot, keyScale) ==
  CASE focusMode = "NATURALS" -> NATURAL_NOTES
    [] focusMode = "KEY" ->
         IF Truthy(keyRoot) /\ Truthy(keyScale)
           THEN getScaleNotes(keyRoot, keyScale) ELSE Labels(NOTES_SHARP)
    [] OTHER -> Labels(NOTES_SHARP)

\* generateRandomStaffNote: the notes it can return
generateRandomStaffNote(minOctave, maxOctave, focusMode, keyRoot, keyScale) ==
  LET availableNotes == allowedNoteNames(focusMode, keyRoot, keyScale)
      E_INDEX == 4
      Clamped(noteName, randomOctave) ==
        LET noteIndex == IndexOf(NOTES_SHARP, ReplaceFlatSign(ReplaceSharpSign(noteName)))
            lowered == IF randomOctave = maxOctave /\ noteIndex > E_INDEX
                         THEN maxOctave - 1 ELSE randomOctave
        IN  IF lowered = minOctave /\ noteIndex < E_INDEX THEN minOctave + 1 ELSE lowered
  IN  {[noteName |-> availableNotes[i], octave |-> Clamped(availableNotes[i], randomOctave)] :
         i \in 1..Len(availableNotes), randomOctave \in minOctave..maxOctave}

generateRandomStaffNoteInRange_anyLabel(lowNote, highNote, focusMode, keyRoot, keyScale) ==
  LET lowParsed == parseNoteString(lowNote)
      highParsed == parseNoteString(highNote)
  IN  IF lowParsed = NoValue \/ highParsed = NoValue
        THEN generateRandomStaffNote(2, 5, focusMode, keyRoot, keyScale)
      ELSE
        LET lowSemitones == noteToSemitones(lowParsed)
            highSemitones == noteToSemitones(highParsed)
            names == Labels(NOTES_SHARP)
            validNotes ==
              {note \in {[noteName |-> names[i], octave |-> octave] :
                           i \in 1..Len(names), octave \in lowParsed.octave..highParsed.octave} :
                 noteToSemitones(note) >= lowSemitones /\ noteToSemitones(note) <= highSemitones}
        IN  IF validNotes = {} THEN {[noteName |-> "C", octave |-> 4]} ELSE validNotes

\* generateRandomStaffNoteInRange: the notes it can return
generateRandomStaffNoteInRange(lowNote, highNote, focusMode, keyRoot, keyScale) ==
  LET lowParsed == parseNoteString(lowNote)
      highParsed == parseNoteString(highNote)
  IN  IF lowParsed = NoValue \/ highParsed = NoValue
        THEN generateRandomStaffNote(2, 5, focusMode, keyRoot, keyScale)
      ELSE
        LET lowSemitones == noteToSemitones(lowParsed)
            highSemitones == noteToSemitones(highParsed)
            names == allowedNoteNames(focusMode, keyRoot, keyScale)
            validNotes ==
              {note \in {[noteName |-> names[i], octave |-> octave] :
                           i \in 1..Len(names), octave \in lowParsed.octave..highParsed.octave} :
                 noteToSemitones(note) >= lowSemitones /\ noteToSemitones(note) <= highSemitones}
        IN  IF validNotes = {} THEN {[noteName |-> "C", octave |-> 4]} ELSE validNotes

\* the ranges of the staff rounds: StaffRangeSelector offers natural notes
\* with the low note below the high note
StaffRanges ==
  {[lowNote |-> <<"B", "3">>, highNote |-> <<"C", "4">>],
   [lowNote |-> <<"E", "4">>, highNote |-> <<"F", "4">>]}

\* a staff round: what generateNewStaffNote reads
StaffRound ==
  \E config \in RoundConfigs, difficulty \in {"EASY", "HARD"}, noteRange \in StaffRanges,
     noteCount \in 1..MaxNoteCount :
    call = [fn |-> "generateNewStaffNote", gameConfig |-> config, difficulty |-> difficulty,
            staffGameConfig |-> [noteRange |-> noteRange, noteCount |-> noteCount]]

\* generateNewStaffNote (part_000 lines 536-654).  Each note of the sequence
\* is drawn again while it repeats an earlier one, for at most 10 draws, so
\* every note of the range can come out at every place.  The staff code has
\* no powerup: its options are those of a round without one.
CallGenerateNewStaffNote ==
  /\ ret = NoValue
  /\ call.fn = "generateNewStaffNote"
  /\ LET config == call.gameConfig
         draws == generateRandomStaffNoteInRange(
                    call.staffGameConfig.noteRange.lowNote,
                    call.staffGameConfig.noteRange.highNote,
                    config.focusMode, config.keyRoot, config.keyScale)
     IN  \E generatedNotes \in [1..call.staffGameConfig.noteCount -> draws] :
           \E options \in answerOptions(call.difficulty, config, generatedNotes[1].noteName,
                                        NoValue) :
             ret' = [targetStaffNotes |-> generatedNotes,
                     activeStaffNoteIndex |-> 0,
                     answerOptions |-> options]
  /\ UNCHANGED <<call, gameVars>>

\* checkStaffAnswer (part_000 lines 692-760) with the right label on a note
\* that is not the last of its sequence: the next note becomes the active
\* one, and in EASY mode the options are built again for it
CheckStaffAnswerNextNote ==
  /\ ret # NoValue
  /\ call.fn = "generateNewStaffNote"
  /\ ret.activeStaffNoteIndex + 1 < Len(ret.targetStaffNotes)
  /\ LET nextIndex == ret.activeStaffNoteIndex + 1
         nextNote == ret.targetStaffNotes[nextIndex + 1]
     IN  \E options \in (IF call.difficulty = "EASY"
                           THEN answerOptions("EASY", call.gameConfig, nextNote.noteName, NoValue)
                           ELSE {ret.answerOptions}) :
           ret' = [ret EXCEPT !.activeStaffNoteIndex = nextIndex, !.answerOptions = options]
  /\ UNCHANGED <<call, gameVars>>

RoundInit ==
  /\ ret = NoValue
  /\ Idle
  /\ (FretboardRound \/ StaffRound)

RoundNext ==
  \/ CallGenerateNewNote
  \/ CallGenerateNewStaffNote
  \/ CheckStaffAnswerNextNote

RoundSpec == RoundInit /\ [][RoundNext]_vars

RoundDone == ret # NoValue /\ call.fn = "generateNewNote"

\* C16: when getValidNotes yields an empty pool, generateNewNote replaces it
\* by exactly one position, string 0 and fret 1, and the round goes on with
\* that position as its target: the round always has a target, also when the
\* previous target was that same position.
C16_EmptyPoolGetsFallback ==
  (RoundDone /\ Len(getValidNotes(call.tuning, call.currentMaxFret, call.gameConfig)) = 0) =>
    /\ Len(ret.validNotes) = 1
    /\ ret.validNotes[1].stringIndex = 0
    /\ ret.validNotes[1].fretIndex = 1
    /\ ret.targetNote # NoValue
    /\ ret.targetNote = ret.validNotes[1]
    /\ Len(ret.answerOptions) >= 1

\* a round whose pool was empty and whose previous target was the fallback
\* position already
C16_Witness ==
  /\ RoundDone
  /\ ret.poolWasEmpty
  /\ call.targetNote # NoValue
  /\ ret.targetNote = call.targetNote
  /\ ret.targetNote.fretIndex = 1

\* a round, fretboard or staff, has its target and its options
RoundBuilt == ret # NoValue /\ call.fn \in {"generateNewNote", "generateNewStaffNote"}

\* the label the player has to name
RoundTargetLabel ==
  IF call.fn = "generateNewNote" THEN ret.targetNote.noteName
  ELSE ret.targetStaffNotes[ret.activeStaffNoteIndex + 1].noteName

\* the FEWER_CHOICES powerup applies to the round
FewerChoicesApplies ==
  /\ call.fn = "generateNewNote"
  /\ call.currentPowerup # NoValue
  /\ call.currentPowerup.type = "FEWER_CHOICES"

\* the labels the focus filter of a round allows: the naturals, the scale of
\* the key context, or all twelve labels (also under KEY without a key context)
AllowedLabelPool ==
  LET config == call.gameConfig
      chromatic == {"C", "C#", "D", "D#", "E", "F", "F#", "G", "G#", "A", "A#", "B"}
  IN  IF config.focusMode = "NATURALS" THEN {"C", "D", "E", "F", "G", "A", "B"}
      ELSE IF config.focusMode = "KEY" /\ config.keyRoot # "" /\ config.keyScale # ""
        THEN {NOTES_SHARP[(IndexOf(NOTES_SHARP, config.keyRoot) + SCALE_INTERVALS[config.keyScale][k]) % 12] :
                k \in 1..7}
      ELSE chromatic

\* C17: in multiple-choice (EASY) mode the option list of a round, for every
\* target and every focus filter and key context, holds the target label
\* exactly once, holds no label twice, and has no more entries than the
\* allowed label pool of the filter.
C17_OptionsHoldTargetOnce ==
  (RoundBuilt /\ call.difficulty = "EASY") =>
    LET options == ret.answerOptions
    IN  /\ Cardinality({k \in 1..Len(options) : options[k] = RoundTargetLabel}) = 1
        /\ \A j, k \in 1..Len(options) : j # k => options[j] # options[k]
        /\ Len(options) <= Cardinality(AllowedLabelPool)
        /\ \A k \in 1..Len(options) : options[k] \in AllowedLabelPool

\* the options built for the second note of a staff sequence under a key
C17_Witness ==
  /\ RoundBuilt
  /\ call.fn = "generateNewStaffNote"
  /\ call.difficulty = "EASY"
  /\ call.gameConfig.focusMode = "KEY"
  /\ call.gameConfig.keyRoot = "F#"
  /\ call.gameConfig.keyScale = "LOCRIAN"
  /\ ret.activeStaffNoteIndex = 1
  /\ Len(ret.answerOptions) = 5
  /\ ret.answerOptions[1] = RoundTargetLabel

RangeNoteStrings ==
  {<<letter, octave>> : letter \in {"C", "E", "B"}, octave \in {"3", "4"}}
    \cup {<<"C", "#", octave>> : octave \in {"3", "4"}}
    \cup {<<letter, "b", octave>> : letter \in {"E", "B"}, octave \in {"3", "4"}}
    \cup {<<"e", "4">>, <<"E">>}

RangeInit ==
  /\ ret = NoValue
  /\ Idle
  /\ \E lowNote \in RangeNoteStrings, highNote \in RangeNoteStrings, config \in RoundConfigs :
       call = [fn |-> "generateRandomStaffNoteInRange", lowNote |-> lowNote,
               highNote |-> highNote, focusMode |-> config.focusMode,
               keyRoot |-> config.keyRoot, keyScale |-> config.keyScale]

CallGenerateRandomStaffNoteInRange ==
  /\ ret = NoValue
  /\ call.fn = "generateRandomStaffNoteInRange"
  /\ \E note \in generateRandomStaffNoteInRange(call.lowNote, call.highNote, call.focusMode,
                                                call.keyRoot, call.keyScale) :
       ret' = [note |-> note]
  /\ UNCHANGED <<call, gameVars>>

RangeNext == CallGenerateRandomStaffNoteInRange

RangeSpec == RangeInit /\ [][RangeNext]_vars

\* the note a note string of a label and an octave digit denotes: the label
\* of the sharp or of the flat table and the octave
DenotedNote(noteStr) ==
  LET name == IF Len(noteStr) = 3 THEN ToUpperCase(noteStr[1]) \o noteStr[2]
              ELSE ToUpperCase(noteStr[1])
  IN  [noteName |-> name, octave |-> DigitValue(noteStr[Len(noteStr)])]

\* absolute pitch = octave * 12 + chromatic index of the label
AbsolutePitch(note) ==
  note.octave * 12
    + (IF IndexOf(NOTES_SHARP, note.noteName) # -1 THEN IndexOf(NOTES_SHARP, note.noteName)
       ELSE IndexOf(NOTES_FLAT, note.noteName))

\* the call has returned and both of its note strings have an octave
RangeDone == ret # NoValue /\ Len(call.lowNote) >= 2 /\ Len(call.highNote) >= 2

\* the (octave, label) pairs of the filter's label set inside the range
RangeCandidates ==
  LET names == allowedNoteNames(call.focusMode, call.keyRoot, call.keyScale)
      low == DenotedNote(call.lowNote)
      high == DenotedNote(call.highNote)
  IN  {note \in {[noteName |-> names[i], octave |-> octave] :
                   i \in 1..Len(names), octave \in low.octave..high.octave} :
         AbsolutePitch(note) >= AbsolutePitch(low) /\ AbsolutePitch(note) <= AbsolutePitch(high)}

\* C20: whenever at least one (octave, label) pair of the filter's label set
\* lies inside the range, generateRandomStaffNoteInRange returns a note whose
\* absolute pitch octave * 12 + index is within
\* [absolutePitch(low), absolutePitch(high)]; for low = high = E4 with the
\* filter ALL it returns exactly {E, 4}.
C20_NoteIsWithinRange ==
  RangeDone =>
    /\ RangeCandidates # {} =>
         /\ AbsolutePitch(ret.note) >= AbsolutePitch(DenotedNote(call.lowNote))
         /\ AbsolutePitch(ret.note) <= AbsolutePitch(DenotedNote(call.highNote))
    /\ (call.lowNote = <<"E", "4">> /\ call.highNote = <<"E", "4">> /\ call.focusMode = "ALL") =>
         ret.note = [noteName |-> "E", octave |-> 4]

\* C21: when no (octave, label) pair of the filter's label set lies inside
\* the range (an inverted range, or one too narrow for the filter),
\* generateRandomStaffNoteInRange returns the fixed default {C, 4}.
C21_EmptyRangeGivesDefault ==
  (RangeDone /\ RangeCandidates = {}) => ret.note = [noteName |-> "C", octave |-> 4]

(***************************************************************************)
(* constants.ts: getRecommendedClef, applied to a staff note of every      *)
(* label of the two tables, written with '#'/'b' or with the Unicode       *)
(* signs, in the octaves around middle C.                                  *)
(***************************************************************************)
MinClefOctave == 2
MaxClefOctave == 6

\* the flat labels and the labels written with the Unicode signs
FlatLabels == {"Db", "Eb", "Gb", "Ab", "Bb"}
UnicodeLabels == {"C~#", "D~#", "F~#", "G~#", "A~#", "D~b", "E~b", "G~b", "A~b", "B~b"}

getRecommendedClef(note) ==
  IF note.octave > 4 THEN "treble"
  ELSE IF note.octave < 4 THEN "bass"
  ELSE LET noteIndex == IndexOf(NOTES_SHARP, ReplaceFlatSign(ReplaceSharpSign(note.noteName)))
       IN  IF noteIndex >= 0 THEN "treble" ELSE "bass"

ClefInit ==
  /\ ret = NoValue
  /\ Idle
  /\ \E noteName \in {NOTES_SHARP[i] : i \in 0..11} \cup FlatLabels \cup UnicodeLabels,
        octave \in MinClefOctave..MaxClefOctave :
       call = [fn |-> "getRecommendedClef",
               note |-> [noteName |-> noteName, octave |-> octave]]

CallGetRecommendedClef ==
  /\ ret = NoValue
  /\ call.fn = "getRecommendedClef"
  /\ ret' = [clef |-> getRecommendedClef(call.note)]
  /\ UNCHANGED <<call, gameVars>>

ClefNext == CallGetRecommendedClef

ClefSpec == ClefInit /\ [][ClefNext]_vars

ClefDone == ret # NoValue /\ call.fn = "getRecommendedClef"

\* the absolute pitch of the note of the call, its label read in either table
ClefPitch ==
  AbsolutePitch([noteName |-> ReplaceFlatSign(ReplaceSharpSign(call.note.noteName)),
                 octave |-> call.note.octave])

\* C22: getRecommendedClef returns treble for octave > 4 and bass for
\* octave < 4, and for every valid label the result is treble if and only if
\* the note's absolute pitch is at or above C4 (4 * 12 + 0) and bass if and
\* only if it is below C4.
C22_ClefFollowsMiddleC ==
  ClefDone =>
    /\ call.note.octave > 4 => ret.clef = "treble"
    /\ call.note.octave < 4 => ret.clef = "bass"
    /\ ret.clef = "treble" <=> ClefPitch >= 4 * 12
    /\ ret.clef = "bass" <=> ClefPitch < 4 * 12

(***************************************************************************)
(* constants.ts: getScaleNotes, noteToSemitones and                        *)
(* generateRandomStaffNoteInRange applied to labels of the two tables and  *)
(* to labels of neither ('H', 'E#', 'Cb'). None of the three has a throw   *)
(* statement; the one fault they can surface is the TypeError of           *)
(* noteName.replace in generateRandomStaffNote when the label set is empty *)
(* and availableNotes[randomNoteIndex] is undefined.                       *)
(***************************************************************************)
FaultRoots == {"C", "F#", "H", "E#"}
FaultNoteNames == {"C", "A#", "Bb", "E#", "H"}
FaultNoteStrings ==
  {<<"E", "#", "3">>, <<"C", "4">>, <<"C", "b", "4">>, <<"E", "4">>, <<"E">>}
FaultConfigs ==
  {[focusMode |-> "ALL", keyRoot |-> "C", keyScale |-> "MAJOR"],
   [focusMode |-> "NATURALS", keyRoot |-> "C", keyScale |-> "MAJOR"],
   [focusMode |-> "KEY", keyRoot |-> "C", keyScale |-> "MAJOR"],
   [focusMode |-> "KEY", keyRoot |-> "H", keyScale |-> "MAJOR"]}

\* a label that is in neither the sharp nor the flat table
Malformed(label) == IndexOf(NOTES_SHARP, label) = -1 /\ IndexOf(NOTES_FLAT, label) = -1

\* generateRandomStaffNoteInRange falls back to generateRandomStaffNote,
\* which reads noteName.replace of an undefined noteName
generateRandomStaffNoteInRange_throws(lowNote, highNote, focusMode, keyRoot, keyScale) ==
  /\ parseNoteString(lowNote) = NoValue \/ parseNoteString(highNote) = NoValue
  /\ Len(allowedNoteNames(focusMode, keyRoot, keyScale)) = 0

FaultInit ==
  /\ ret = NoValue
  /\ Idle
  /\ \/ \E root \in FaultRoots, type \in {"MAJOR", "LOCRIAN"} :
          call = [fn |-> "getScaleNotes", root |-> root, type |-> type]
     \/ \E noteName \in FaultNoteNames, octave \in MinClefOctave..MaxClefOctave :
          call = [fn |-> "noteToSemitones",
                  note |-> [noteName |-> noteName, octave |-> octave]]
     \/ \E lowNote \in FaultNoteStrings, highNote \in FaultNoteStrings,
           config \in FaultConfigs :
          call = [fn |-> "generateRandomStaffNoteInRange", lowNote |-> lowNote,
                  highNote |-> highNote, focusMode |-> config.focusMode,
                  keyRoot |-> config.keyRoot, keyScale |-> config.keyScale]

CallGetScaleNotes ==
  /\ ret = NoValue
  /\ call.fn = "getScaleNotes"
  /\ ret' = [threw |-> FALSE, value |-> getScaleNotes(call.root, call.type)]
  /\ UNCHANGED <<call, gameVars>>

CallNoteToSemitones ==
  /\ ret = NoValue
  /\ call.fn = "noteToSemitones"
  /\ ret' = [threw |-> FALSE, value |-> noteToSemitones(call.note)]
  /\ UNCHANGED <<call, gameVars>>

CallStaffNoteInRange ==
  /\ ret = NoValue
  /\ call.fn = "generateRandomStaffNoteInRange"
  /\ IF generateRandomStaffNoteInRange_throws(call.lowNote, call.highNote, call.focusMode,
                                              call.keyRoot, call.keyScale)
       THEN ret' = [threw |-> TRUE, value |-> "TypeError"]
       ELSE \E note \in generateRandomStaffNoteInRange(call.lowNote, call.highNote,
                                                       call.focusMode, call.keyRoot,
                                                       call.keyScale) :
              ret' = [threw |-> FALSE, value |-> note]
  /\ UNCHANGED <<call, gameVars>>

FaultNext == CallGetScaleNotes \/ CallNoteToSemitones \/ CallStaffNoteInRange

FaultSpec == FaultInit /\ [][FaultNext]_vars

\* the call has returned or thrown, and one of the labels it was given (key
\* root, note name, range bound) is in neither table
MalformedCallDone ==
  /\ ret # NoValue
  /\ CASE call.fn = "getScaleNotes" -> Malformed(call.root)
       [] call.fn = "noteToSemitones" -> Malformed(call.note.noteName)
       [] OTHER ->
            \/ call.focusMode = "KEY" /\ Malformed(call.keyRoot)
            \/ \E str \in {call.lowNote, call.highNote} :
                 Len(str) >= 2 /\ Malformed(DenotedNote(str).noteName)

\* C23: a pitch-class label that is in neither the sharp nor the flat table
\* is a hard fault surfaced to the caller: getScaleNotes, noteToSemitones and
\* generateRandomStaffNoteInRange never answer such a label with an ordinary
\* value (an empty scale, absolute pitch 0, or a normal note).
C23_MalformedLabelIsAFault == MalformedCallDone => ret.threw

\* C30 as stated: every note returned by generateRandomStaffNoteInRange has a
\* note name of the focus filter's label set (the 12 labels, the 7 naturals,
\* or the scale of the key), also when no note of the set lies in the range.
C30_NoteNameIsAllowed ==
  (ret # NoValue /\ call.fn = "generateRandomStaffNoteInRange") =>
    Includes(allowedNoteNames(call.focusMode, call.keyRoot, call.keyScale), ret.note.noteName)

\* C30: every note returned by generateRandomStaffNoteInRange has a note name
\* of the focus filter's label set, or it is the default {C, 4} of a call
\* whose two bounds parse.
C30_NoteNameIsAllowedOrDefault ==
  (ret # NoValue /\ call.fn = "generateRandomStaffNoteInRange") =>
    \/ Includes(allowedNoteNames(call.focusMode, call.keyRoot, call.keyScale),
                ret.note.noteName)
    \/ /\ ret.note = [noteName |-> "C", octave |-> 4]
       /\ parseNoteString(call.lowNote) # NoValue
       /\ parseNoteString(call.highNote) # NoValue

\* a call under a key whose scale has no C returned a note of the scale
C30_Witness ==
  /\ ret # NoValue
  /\ call.fn = "generateRandomStaffNoteInRange"
  /\ call.focusMode = "KEY" /\ call.keyRoot = "F#" /\ call.keyScale = "MAJOR"
  /\ ret.note.noteName = "A#"

\* C29: every target position presented in a fretboard round has a noteName
\* equal to getNoteAtPosition(tuning[stringIndex], fretIndex) under the
\* active tuning, the rounds that use the fallback position included.
C29_TargetNameIsPositionName ==
  RoundDone =>
    ret.targetNote.noteName
      = getNoteAtPosition(call.tuning[ret.targetNote.stringIndex + 1], ret.targetNote.fretIndex)

(***************************************************************************)
(* The game loop under a configuration whose pool is empty (focus KEY      *)
(* without a key root), so that every round presents the fallback position *)
(* and a behaviour can be followed through a streak of correct answers.    *)
(***************************************************************************)
StreakInit ==
  /\ call = NoValue
  /\ ret = NoValue
  /\ Mounted
  /\ noteStats = EmptyStats
  /\ \E adaptive \in BOOLEAN :
       gameConfig = [DefaultGameConfig EXCEPT !.focusMode = "KEY", !.keyRoot = "",
                                              !.adaptiveLearning = adaptive]

StreakSpec == StreakInit /\ [][Next]_vars

\* a question is on screen, waiting for its answer
QuestionPresented == gameState = "PLAYING" /\ targetNote # NoValue /\ ~isProcessing

\* C26: a powerup triggered by a streak (the fifth correct answer in a row)
\* is in effect, activePowerup non-null, for exactly the next two presented
\* questions when the first is answered correctly, and is no longer in effect
\* for the third question.
C26_PowerupLastsTwoQuestions ==
  QuestionPresented =>
    /\ streak \in {5, 6} => activePowerup # NoValue
    /\ streak = 7 => activePowerup = NoValue

\* the outcomes recorded since the target on screen was presented
OutcomesOfTarget == Outcomes - SumCounts(lastSched.recorded, DOMAIN lastSched.recorded)

\* C25: at most one outcome is processed per presented target: once an
\* answer or a timeout has been handled for a round, no further checkAnswer
\* or handleTimeout for the same target records a second outcome, under any
\* interleaving of click, timer-tick, feedback-timeout and re-render events.
C25_OneOutcomePerTarget == lastSched # NoValue => OutcomesOfTarget <= 1

\* the correct answers logged in a session record
RECURSIVE CorrectAnswers(_, _)
CorrectAnswers(interactions, k) ==
  IF k = 0 THEN 0
  ELSE (IF interactions[k].isCorrect THEN 1 ELSE 0) + CorrectAnswers(interactions, k - 1)

\* C27: the score written into the session record at game over equals the
\* session's final score, the number of correct answers given since
\* startGame, whether the last health point is lost through a wrong answer
\* or through a timeout.
C27_RecordHoldsFinalScore ==
  gameState = "GAME_OVER" =>
    /\ history[Len(history)].score = score
    /\ history[Len(history)].score
         = CorrectAnswers(history[Len(history)].interactions,
                          Len(history[Len(history)].interactions))

(***************************************************************************)
(* Games played one after the other by a player who misses every question, *)
(* by a wrong answer or by letting the time run out, under the             *)
(* configuration whose pool is the one fallback position.                  *)
(***************************************************************************)
GamesInit ==
  /\ call = [fn |-> "playGames", maxOutcomes |-> MaxGamesOutcomes]
  /\ ret = NoValue
  /\ Mounted
  /\ noteStats = EmptyStats
  /\ \E adaptive \in BOOLEAN :
       gameConfig = [DefaultGameConfig EXCEPT !.focusMode = "KEY", !.keyRoot = "",
                                              !.adaptiveLearning = adaptive]

\* an answer button that does not carry the target's label (line 2058)
WrongAnswerButton ==
  /\ targetNote # NoValue
  /\ \E elapsed \in AnswerTimes : checkAnswer(WrongLabel(targetNote), elapsed)

GamesNext ==
  \/ startGame
  \/ EffectGenerateNewNote
  \/ WrongAnswerButton
  \/ TimerFires
  \/ FeedbackTimeoutFires
  \/ MainMenu

GamesSpec == GamesInit /\ [][GamesNext]_vars

\* C28: stopGame appends exactly one record and leaves every earlier record
\* unchanged: whenever the history changes, the new history is the old one
\* followed by one record, so that after any sequence of games it holds one
\* record per finished game in the order the games ended.
C28_StopGameAppendsOneRecord ==
  [][history' # history =>
       /\ Len(history') = Len(history) + 1
       /\ SubSeq(history', 1, Len(history)) = history]_vars

(***************************************************************************)
(* App.tsx: the mount effect that loads localStorage (lines 948-1004), and *)
(* the first pool generation, scheduling call and outcome recording after  *)
(* it.  A stored entry is a text; JSON.parse is the table of the texts     *)
(* tried.                                                                  *)
(***************************************************************************)
Absent == "<absent>"   \* getItem returned null
NullStats == [k \in {<<"null">>} |-> TRUE]   \* null held by noteStats

SavedStats == {Absent, "{oops", "null", "{}", "{Standard (EADGBE)-0-1: ...}"}
SavedGuitars == {Absent, "{oops", "null", "[]", "[{id: g1, tuning: [...]}]", "[{id: g1}]"}
SavedActiveGuitarId == {Absent, "default", "g1"}
SavedAdaptive == {Absent, "true", "false", "yes"}

DropD == [id |-> "g1", name |-> "Drop D", tuningName |-> "Drop D",
          tuning |-> <<-2, 5, 10, 15, 19, 24>>]
NoTuning == [id |-> "g1", name |-> "Drop D", tuningName |-> "Drop D"]

\* JSON.parse of a stored text: threw for a SyntaxError
JSONparse(text) ==
  CASE text = "null" -> [threw |-> FALSE, kind |-> "null"]
    [] text = "{}" -> [threw |-> FALSE, kind |-> "object", value |-> EmptyStats]
    [] text = "{Standard (EADGBE)-0-1: ...}" ->
         [threw |-> FALSE, kind |-> "object",
          value |-> recordNoteResult(EmptyStats, "Standard (EADGBE)",
                                     [stringIndex |-> 0, fretIndex |-> 1, noteName |-> "F"],
                                     TRUE, 2000, FALSE, ClockStart - 1000)]
    [] text = "[]" -> [threw |-> FALSE, kind |-> "array", value |-> <<>>]
    [] text = "[{id: g1, tuning: [...]}]" ->
         [threw |-> FALSE, kind |-> "array", value |-> <<DropD>>]
    [] text = "[{id: g1}]" -> [threw |-> FALSE, kind |-> "array", value |-> <<NoTuning>>]
    [] OTHER -> [threw |-> TRUE, kind |-> "SyntaxError"]

LoadInit ==
  /\ ret = NoValue
  /\ Idle
  /\ \E savedStats \in SavedStats, savedGuitars \in SavedGuitars,
        savedActiveGuitarId \in SavedActiveGuitarId, savedAdaptive \in SavedAdaptive :
       call = [fn |-> "load", fretmaster_note_stats |-> savedStats,
               fretmaster_guitars |-> savedGuitars,
               fretmaster_active_guitar |-> savedActiveGuitarId,
               fretmaster_adaptive_learning |-> savedAdaptive]

\* the effect of lines 948-1004 (the history entry is absent)
LoadPersistence ==
  /\ ret = NoValue
  /\ call.fn = "load"
  /\ LET parsedGuitars == JSONparse(call.fretmaster_guitars)
         parsedStats == JSONparse(call.fretmaster_note_stats)
     IN  /\ guitarProfiles' =
              IF call.fretmaster_guitars # Absent /\ ~parsedGuitars.threw
                 /\ parsedGuitars.kind = "array" /\ Len(parsedGuitars.value) > 0
                THEN parsedGuitars.value ELSE guitarProfiles
         /\ activeGuitarId' =
              IF call.fretmaster_active_guitar # Absent
                THEN call.fretmaster_active_guitar ELSE activeGuitarId
         /\ noteStats' =
              IF call.fretmaster_note_stats # Absent /\ ~parsedStats.threw
                THEN (IF parsedStats.kind = "null" THEN NullStats ELSE parsedStats.value)
                ELSE noteStats
         /\ gameConfig' =
              IF call.fretmaster_adaptive_learning # Absent
                THEN [gameConfig EXCEPT !.adaptiveLearning =
                                          call.fretmaster_adaptive_learning = "true"]
                ELSE gameConfig
  /\ ret' = [loaded |-> TRUE]
  /\ UNCHANGED <<call, gameState, currentMaxFret, score, streak, health, targetNote,
                 isProcessing, activePowerup, history, showGuitarSettings, editingId, editForm,
                 now, noteStartTimeRef, sessionInteractionsRef, timerIntervalRef,
                 feedbackTimeoutRef, genScope, recorded, lastSched, lastWrite>>

\* getValidNotes reads offsets[s] of an undefined activeGuitar.tuning
getValidNotes_throws == "tuning" \notin DOMAIN activeGuitar

\* getSmartNextNote reads Object.keys(noteStats) of null
getSmartNextNote_throws == gameConfig.adaptiveLearning /\ <<"null">> \in DOMAIN noteStats

\* recordNoteResult reads noteStats[key] of null
recordNoteResult_throws == <<"null">> \in DOMAIN noteStats

\* the first pool generation, scheduling call or outcome recording after the load
CallAfterLoad ==
  /\ ret # NoValue
  /\ call.fn = "load"
  /\ "loaded" \in DOMAIN ret
  /\ \/ ret' = [fn |-> "getValidNotes", threw |-> getValidNotes_throws]
     \/ ret' = [fn |-> "getSmartNextNote", threw |-> getSmartNextNote_throws]
     \/ ret' = [fn |-> "recordNoteResult", threw |-> recordNoteResult_throws]
  /\ UNCHANGED <<call, gameVars>>

LoadNext == LoadPersistence \/ CallAfterLoad

LoadSpec == LoadInit /\ [][LoadNext]_vars

\* a stored text that is absent or does not hold what the entry is for
MalformedEntry(text) ==
  text \in {Absent, "{oops", "null", "[]", "[{id: g1}]", "yes"}

\* C24: if a persisted entry (note stats, guitar profiles, adaptive flag) is
\* absent or malformed - unparseable text, or well-formed JSON of the wrong
\* shape such as null or a profile without a 6-entry tuning - loading leaves
\* the corresponding state at its default, and every later pool generation,
\* scheduling call and outcome recording completes without a fault.
C24_MalformedEntryLeavesDefault ==
  (ret # NoValue /\ call.fn = "load") =>
    /\ MalformedEntry(call.fretmaster_note_stats) => noteStats = EmptyStats
    /\ MalformedEntry(call.fretmaster_guitars) => guitarProfiles = <<DEFAULT_GUITAR>>
    /\ MalformedEntry(call.fretmaster_adaptive_learning) => gameConfig.adaptiveLearning
    /\ "threw" \in DOMAIN ret => ~ret.threw

====
